---- MODULE Spec2Model ----
(***************************************************************************)
(* Ingestion pipeline of scripts/pdf_uploader.py (NEETPGDataProcessor):    *)
(* record streams of the two layouts, batched persistence over a           *)
(* PostgreSQL connection (psycopg2, explicit commits), the ProcessedFile   *)
(* log and the verification sampling pass of process_pdf_file.             *)
(***************************************************************************)
EXTENDS Integers, Sequences, FiniteSets, TLC

\* Python None / SQL NULL for text values.
NULL == "NULL"

\* A rank cell from which no rank can be recovered.
NoRank == -1

\* batch_size of process_pdf_file and insert_records.
batch_size == 100

\* ------------------------------------------------------------------------
\* Bounds of the model.

\* process_pdf_file calls in one behaviour.
MaxCalls == 2

\* Data rows of the table on page 1 and on page 2 of the large document.
PageOneRows == 120
PageTwoRows == 85

\* ------------------------------------------------------------------------
\* Documents as the page reader returns them.  A row is kept at the level of
\* the cells the record stream looks at: the number of cells, the rank the
\* rank cell holds (NoRank if none), the college and the course cell.  A text
\* line is kept as the groups a pattern of the fallback captures from it
\* (rank = NoRank if no pattern matches the line).

Row(n, rank, college, course) ==
    [len |-> n, rank |-> rank, college_name |-> college, course |-> course]

HeaderRow == Row(17, NoRank, "College Name", "Course")

\* A page: the tables extract_tables() returns, and what extract_text()
\* returns (null, or the lines of the text).
TablePage(tables) == [tables |-> tables, textNull |-> FALSE, lines |-> <<>>]
TextPage(lines) == [tables |-> <<>>, textNull |-> FALSE, lines |-> lines]
BlankPage == [tables |-> <<>>, textNull |-> TRUE, lines |-> <<>>]

\* A table of a header row and n well-formed rows with ranks base+1..base+n.
BigTable(base, n) ==
    [i \in 1..(n + 1) |->
        IF i = 1 THEN HeaderRow
        ELSE Row(17, base + i - 1, "Example College", "M.D. General Medicine")]

GoodRow(rank) == Row(17, rank, "Example College", "M.D. General Medicine")

\* The large document: two pages, one table each.
BigDoc ==
    << TablePage(<< BigTable(1000, PageOneRows) >>),
       TablePage(<< BigTable(2000, PageTwoRows) >>) >>

\* One table with a good row, a row without a rank, a row without a college,
\* a short row and a second copy of the first row; then a page without tables
\* whose text has one line a pattern matches and one it does not.
MixedDoc ==
    << TablePage(<< << HeaderRow,
                      GoodRow(5001),
                      Row(17, NoRank, "Example College", "M.D. Anatomy"),
                      Row(17, 5003, NULL, "M.D. Anatomy"),
                      Row(3, 5004, "Example College", "M.D. Anatomy"),
                      GoodRow(5001) >> >>),
       TextPage(<< Row(0, 5005, "Text College", "M.D. Paediatrics"),
                   Row(0, NoRank, NULL, NULL) >>) >>

\* A page the page reader renders neither tables nor text for, between two
\* pages with one good row each.
BlankDoc ==
    << TablePage(<< << HeaderRow, GoodRow(6001) >> >>),
       BlankPage,
       TablePage(<< << HeaderRow, GoodRow(6003) >> >>) >>

\* Only malformed rows.
JunkDoc ==
    << TablePage(<< << HeaderRow,
                      Row(17, NoRank, "Example College", "M.D. Anatomy"),
                      Row(3, 7002, "Example College", "M.D. Anatomy") >> >>),
       TextPage(<< Row(0, NoRank, NULL, NULL) >>) >>

\* A result document of a round: a first page with more rows than a batch
\* holds, then a page the page reader renders neither tables nor text for.
RoundDoc ==
    << TablePage(<< BigTable(3000, PageOneRows) >>),
       BlankPage >>

\* What the column window of one round holds in a row of a multi-round
\* table: the quota, the college and the course (NULL for '-' or an empty
\* cell).
Slice(quota, college, course) ==
    [quota |-> quota, college_name |-> college, course |-> course]

NoSlice == Slice(NULL, NULL, NULL)

\* A row of a multi-round table: the number of cells, the rank of cell 0 and
\* the windows of rounds 1, 2 and 3.
RoundRow(n, rank, slices) ==
    [len |-> n, rank |-> rank, college_name |-> NULL, course |-> NULL,
     slices |-> slices]

\* A final-result document of round 3: a multi-round table (a candidate with
\* a seat in every round, the same one in rounds 2 and 3; a candidate with a
\* seat in round 3 only; a row of 7 cells; a row without a rank; a row of 9
\* cells), a page without tables, and a second table.
RoundThreeDoc ==
    << TablePage(<< << HeaderRow, HeaderRow,
                      RoundRow(14, 8001,
                               << Slice("AI", "College One", "M.D. Anatomy"),
                                  Slice("AI", "College Two", "M.D. Anatomy"),
                                  Slice("AI", "College Two", "M.D. Anatomy") >>),
                      RoundRow(14, 8002,
                               << NoSlice, NoSlice,
                                  Slice("DU", "College One", "M.S. Surgery") >>),
                      RoundRow(7, 8003,
                               << Slice("AI", "College One", "M.D. Anatomy"),
                                  NoSlice, NoSlice >>),
                      RoundRow(14, NoRank,
                               << Slice("AI", "College One", "M.D. Anatomy"),
                                  NoSlice, NoSlice >>),
                      RoundRow(9, 8005,
                               << Slice("AI", "College One", "M.S. Surgery"),
                                  Slice("IP", "College Two", "M.S. Surgery"),
                                  Slice("IP", "College Two", "M.S. Surgery") >>) >> >>),
       TextPage(<< Row(0, 8006, "Text College", "M.D. Paediatrics") >>),
       TablePage(<< << HeaderRow, HeaderRow,
                      RoundRow(14, 8007,
                               << Slice("AI", "College One", "M.D. Anatomy"),
                                  NoSlice,
                                  Slice("AI", "College Two", "M.D. Anatomy") >>) >> >>) >>

\* A multi-round table in a document whose name tells nothing: the text of
\* its first page has the header 'Round 1 Round 2'.  Its candidate holds the
\* same seat in rounds 1 and 2.
HeaderDoc ==
    << TablePage(<< << HeaderRow, HeaderRow,
                      RoundRow(14, 8101,
                               << Slice("AI", "College One", "M.D. Anatomy"),
                                  Slice("AI", "College One", "M.D. Anatomy"),
                                  NoSlice >>) >> >>),
       TextPage(<< Row(0, 8102, "Text College", "M.D. Paediatrics") >>) >>

\* A single-round result: a table of two rows, then a page without tables.
RoundFourDoc ==
    << TablePage(<< << HeaderRow, GoodRow(8201), GoodRow(8202) >> >>),
       TextPage(<< Row(0, 8203, "Text College", "M.D. Paediatrics") >>) >>

\* A single-round result of a stray vacancy round: the text of its first
\* page says 'Stray Vacancy Round'.
StrayDoc ==
    << TablePage(<< << HeaderRow, GoodRow(8301) >> >>),
       TablePage(<< << HeaderRow, GoodRow(8302) >> >>) >>

\* A state merit list of two pages.
StateDoc ==
    << TablePage(<< << HeaderRow, GoodRow(8401), GoodRow(8402) >> >>),
       TablePage(<< << HeaderRow, GoodRow(8403) >> >>) >>

\* Paths are sequences of components; the last one is the file name.
Paths ==
    { <<"data", "big.pdf">>, <<"data", "mixed.pdf">>, <<"data", "blank.pdf">>,
      <<"copy", "blank.pdf">>, <<"data", "junk.pdf">>, <<"data", "missing.pdf">> }

\* os.path.basename
basename(path) == path[Len(path)]

\* os.path.exists
exists(path) == basename(path) /= "missing.pdf"

\* pdfplumber.open(pdf_path).pages
Pages(path) ==
    CASE basename(path) = "big.pdf" -> BigDoc
      [] basename(path) = "mixed.pdf" -> MixedDoc
      [] basename(path) = "blank.pdf" -> BlankDoc
      [] basename(path) = "round2.pdf" -> RoundDoc
      [] basename(path) = "Round 3 Final Result.pdf" -> RoundThreeDoc
      [] basename(path) = "result.pdf" -> HeaderDoc
      [] basename(path) = "pg_round_4.pdf" -> RoundFourDoc
      [] basename(path) = "round 3 vacancy.pdf" -> StrayDoc
      [] basename(path) = "state.pdf" -> StateDoc
      [] OTHER -> JunkDoc

\* The lower-cased file name contains the text: `text in filename` for
\* filename = os.path.basename(pdf_path).lower().
InFileName(text, path) ==
    text \in
      (CASE basename(path) = "Round 3 Final Result.pdf" -> {"round 3", "final result"}
         [] basename(path) = "pg_round_4.pdf" -> {"pg_round_4"}
         [] basename(path) = "round 3 vacancy.pdf" -> {"round 3"}
         [] OTHER -> {})

\* pdf.pages[0].extract_text() or "": which of 'Round 1 Round 2' (as
\* written) and 'stray' (in any case of letters) the text of the first page
\* contains.
first_page_text(path) ==
    IF Pages(path)[1].textNull THEN {}
    ELSE CASE basename(path) = "result.pdf" -> {"Round 1 Round 2"}
           [] basename(path) = "round 3 vacancy.pdf" -> {"stray"}
           [] OTHER -> {}

\* extract_round_number(filename)
extract_round_number(path) ==
    IF InFileName("round 4", path) \/ InFileName("pg_round_4", path) THEN 4
    ELSE IF InFileName("round 5", path) \/ InFileName("stray", path) THEN 5
    ELSE IF InFileName("round 3", path) \/ InFileName("pg_round_3", path) THEN 3
    ELSE IF InFileName("pg_round_4", path) THEN 4
    ELSE 1

\* is_multi_round of process_all_india_pdf
is_multi_round(path) ==
    \/ "Round 1 Round 2" \in first_page_text(path)
    \/ (InFileName("round 3", path) /\ InFileName("final result", path))

\* The round number without the override by the text of the first page.
round_number_of_file_name(path) == extract_round_number(path)

\* round_number of process_all_india_pdf: from the file name, 5 when the
\* text of the first page mentions 'stray'.
round_number_of(path) ==
    IF "stray" \in first_page_text(path) THEN 5
    ELSE extract_round_number(path)

\* ------------------------------------------------------------------------
\* Record streams.

\* A record as the generators yield it; a key the parser did not set reads
\* as NULL (record.get).
Record(row, pn) ==
    [rank |-> row.rank, college_name |-> row.college_name,
     course |-> row.course, round |-> 1, _page_number |-> pn]

\* The records with record['round'] = round_number.
WithRound(recs, round) ==
    [i \in 1..Len(recs) |-> [recs[i] EXCEPT !.round = round]]

\* parse_state_quota_row, on the cells the stream depends on: a row of fewer
\* than 11 cells gives nothing, a row of exactly 11 cells fails on row[11]
\* inside the try and gives nothing, and a record is returned only with a
\* rank that is set and non-zero.
StateRowYields(row) ==
    /\ row.len >= 12
    /\ row.rank /= NoRank
    /\ row.rank /= 0

\* parse_single_round_row: rank, college and course must all be there.
SingleRoundRowYields(row) ==
    /\ row.rank /= NoRank
    /\ row.college_name /= NULL
    /\ row.course /= NULL

\* The records of the rows a parser kept, in order, tagged with their page.
RowRecords(kept, pn) == [i \in 1..Len(kept) |-> Record(kept[i], pn)]

\* table[1:]
DataRows(table) == IF Len(table) <= 1 THEN <<>> ELSE SubSeq(table, 2, Len(table))

\* process_state_quota_pdf, one table: the header row is skipped, rows of
\* fewer than 11 cells are skipped, the others are parsed.
StateGate(row) == row.len >= 11 /\ StateRowYields(row)

StateTableRecords(table, pn) == RowRecords(SelectSeq(DataRows(table), StateGate), pn)

\* parse_single_round_table: row 0 is skipped, rows of fewer than 5 cells are
\* skipped, the others are parsed.
SingleRoundGate(row) == row.len >= 5 /\ SingleRoundRowYields(row)

parse_single_round_table(table, pn) == RowRecords(SelectSeq(DataRows(table), SingleRoundGate), pn)

\* parse_all_india_text on the lines of a text: a line gives a record when a
\* pattern matches it.
LineMatches(line) == line.rank /= NoRank

parse_all_india_text(lines, pn) == RowRecords(SelectSeq(lines, LineMatches), pn)

\* round_configs of parse_multi_round_table: round_num, start_col, end_col.
round_configs == << << 1, 1, 5 >>, << 2, 5, 9 >>, << 3, 9, 13 >> >>

\* extract_round_data returns a record for the c-th round of a row: the
\* quota, the college and the course of the window are set and their columns
\* (start_col, start_col + 1, start_col + 2) are in the row.
RoundSliceYields(row, c) ==
    /\ row.slices[c].quota /= NULL
    /\ row.slices[c].college_name /= NULL
    /\ row.slices[c].course /= NULL
    /\ round_configs[c][2] + 2 < row.len

\* The record of the c-th round of a row, if there is one, tagged with the
\* round of the window and the page.
RoundSliceRecords(row, c, pn) ==
    IF row.len > round_configs[c][2] /\ RoundSliceYields(row, c)
    THEN << [rank |-> row.rank,
             college_name |-> row.slices[c].college_name,
             course |-> row.slices[c].course,
             round |-> round_configs[c][1],
             _page_number |-> pn] >>
    ELSE <<>>

\* The rounds of a row taken from the last to the first.
MultiRoundRowRecordsBackwards(row, pn) ==
    RoundSliceRecords(row, 3, pn) \o RoundSliceRecords(row, 2, pn)
        \o RoundSliceRecords(row, 1, pn)

\* for round_num, start_col, end_col in round_configs: the records of a row.
MultiRoundRowRecords(row, pn) ==
    RoundSliceRecords(row, 1, pn) \o RoundSliceRecords(row, 2, pn)
        \o RoundSliceRecords(row, 3, pn)

\* A row parse_multi_round_table reads: at least 8 cells and a rank.
MultiRoundGate(row) == row.len >= 8 /\ row.rank /= NoRank

RECURSIVE MultiRoundRowsRecords(_, _)
\* The records of the rows, in order.
MultiRoundRowsRecords(rows, pn) ==
    IF rows = <<>> THEN <<>>
    ELSE MultiRoundRowRecords(Head(rows), pn) \o MultiRoundRowsRecords(Tail(rows), pn)

\* parse_multi_round_table: the first two rows are skipped.
MultiRoundTableRecords(table, pn) ==
    MultiRoundRowsRecords(
        SelectSeq(IF Len(table) <= 2 THEN <<>> ELSE SubSeq(table, 3, Len(table)),
                  MultiRoundGate), pn)

\* The table parser of a layout.
TableRecords(table, pn, file_type) ==
    IF file_type = "state" THEN StateTableRecords(table, pn)
    ELSE IF file_type = "multi_round" THEN MultiRoundTableRecords(table, pn)
    ELSE parse_single_round_table(table, pn)

RECURSIVE TablesRecords(_, _, _)
\* for table in tables: the records of every table, in order.
TablesRecords(tables, pn, file_type) ==
    IF tables = <<>> THEN <<>>
    ELSE TableRecords(Head(tables), pn, file_type)
            \o TablesRecords(Tail(tables), pn, file_type)

\* What a generator has done when it stops: the records it yielded, whether
\* it stopped by raising, and the number of pages it asked the reader for.
Yielded(recs, raised, pagesRead) ==
    [recs |-> recs, raised |-> raised, pages |-> pagesRead]

RECURSIVE state_quota_with_fallback_from(_, _, _)
\* The state stream with the text fallback on the pages without tables.
state_quota_with_fallback_from(pages, pn, acc) ==
    IF pn > Len(pages) THEN Yielded(acc, FALSE, Len(pages))
    ELSE state_quota_with_fallback_from(pages, pn + 1,
            acc \o (IF pages[pn].tables /= <<>>
                    THEN TablesRecords(pages[pn].tables, pn, "state")
                    ELSE parse_all_india_text(pages[pn].lines, pn)))

RECURSIVE process_state_quota_pdf_from(_, _, _)
\* process_state_quota_pdf: pages in order; a page without tables gives
\* nothing.
process_state_quota_pdf_from(pages, pn, acc) ==
    IF pn > Len(pages) THEN Yielded(acc, FALSE, Len(pages))
    ELSE process_state_quota_pdf_from(pages, pn + 1,
            acc \o TablesRecords(pages[pn].tables, pn, "state"))

process_state_quota_pdf(path) == process_state_quota_pdf_from(Pages(path), 1, <<>>)

\* The text fallback of process_all_india_pdf for a page without tables:
\* text = page.extract_text(); parse_all_india_text(text, ...) starts with
\* text.split, which raises when text is None.
FallbackRaises(page) == page.textNull

RECURSIVE process_all_india_pdf_from(_, _, _, _, _)
\* process_all_india_pdf: pages in order, the table parser of the format
\* when the page has tables, the text fallback otherwise.  The records of
\* the single-round parser and of the fallback carry round_number, those of
\* the multi-round parser the round of their window.
process_all_india_pdf_from(pages, multi, round, pn, acc) ==
    IF pn > Len(pages) THEN Yielded(acc, FALSE, Len(pages))
    ELSE IF pages[pn].tables /= <<>>
         THEN process_all_india_pdf_from(pages, multi, round, pn + 1,
                  acc \o (IF multi
                          THEN TablesRecords(pages[pn].tables, pn, "multi_round")
                          ELSE WithRound(TablesRecords(pages[pn].tables, pn, "all_india"),
                                         round)))
         ELSE IF FallbackRaises(pages[pn])
              THEN Yielded(acc, TRUE, pn)
              ELSE process_all_india_pdf_from(pages, multi, round, pn + 1,
                       acc \o WithRound(parse_all_india_text(pages[pn].lines, pn), round))

process_all_india_pdf(path) ==
    process_all_india_pdf_from(Pages(path), is_multi_round(path), round_number_of(path),
                               1, <<>>)

\* record_generator of process_pdf_file for a valid file_type.
record_generator(path, file_type) ==
    IF file_type = "state" THEN process_state_quota_pdf(path)
    ELSE process_all_india_pdf(path)

\* ------------------------------------------------------------------------
\* The record store: PostgreSQL through one psycopg2 connection.  Statements
\* run in a transaction that lasts until conn.commit(); closing the
\* connection, or losing it, discards what was not committed.  An id is the
\* position of the row in its table.

EmptyStore == [cd |-> <<>>, pf |-> <<>>, vr |-> <<>>]

\* The open transaction: the rows it has inserted, and whether a statement of
\* it has failed (the server then refuses every statement until the
\* transaction ends, and ends it by rolling back).
EmptyTxn == [cd |-> <<>>, pf |-> <<>>, vr |-> <<>>, failed |-> FALSE]

\* What a statement of the connection sees.
View(c, t) == [cd |-> c.cd \o t.cd, pf |-> c.pf \o t.pf, vr |-> c.vr \o t.vr]

\* conn.commit()
CommitStore(c, t) == IF t.failed THEN c ELSE View(c, t)

\* The row INSERT INTO counselling_data writes for a record.
CdRow(record) ==
    [rank |-> record.rank, college_name |-> record.college_name,
     course |-> record.course, round |-> record.round]

\* Whether the store refuses the row as a duplicate (the IntegrityError that
\* insert_records catches).  counselling_data as create_tables declares it
\* has no uniqueness constraint; with one, NULL columns never collide.
Rejects(constraint, rows, row) ==
    /\ constraint
    /\ row.college_name /= NULL
    /\ row.course /= NULL
    /\ \E i \in 1..Len(rows) : rows[i] = row

\* for record in batch (insert_records), as one step.  Records are inserted
\* until the store refuses one: that one is counted as skipped and the
\* transaction has failed, so the execute for the next record raises an error
\* that is no IntegrityError and leaves insert_records.  In a transaction that
\* has failed before the loop the first execute raises.  The result is the
\* rows of the transaction after the loop, whether it has failed, the count
\* of inserted records, and whether an execute raised out of the loop.
InsertLoop(constraint, base, batch, t) ==
    LET rows == [i \in 1..Len(batch) |-> CdRow(batch[i])]
        refused == { j \in 1..Len(rows) :
                       Rejects(constraint, base \o t.cd \o SubSeq(rows, 1, j - 1), rows[j]) }
        first == IF refused = {} THEN Len(rows) + 1
                 ELSE CHOOSE j \in refused : \A k \in refused : j <= k
    IN  IF t.failed
        THEN [cd |-> t.cd, failed |-> TRUE, inserted |-> 0, raised |-> batch /= <<>>]
        ELSE [cd |-> t.cd \o SubSeq(rows, 1, first - 1),
              failed |-> first <= Len(rows),
              inserted |-> first - 1,
              raised |-> first < Len(rows)]

\* batch_size of insert_records.
insert_batch_size == 100

Min(a, b) == IF a <= b THEN a ELSE b
Max(a, b) == IF a >= b THEN a ELSE b

RECURSIVE insert_records_from(_, _, _)
\* insert_records: slices of batch_size records, one commit after each.  st is
\* [committed, txn, inserted, raised, largest] with largest the most rows
\* one commit of it wrote.
insert_records_from(constraint, records, st) ==
    IF records = <<>> \/ st.raised THEN st
    ELSE LET n == Min(Len(records), insert_batch_size)
             loop == InsertLoop(constraint, st.committed.cd, SubSeq(records, 1, n),
                                st.txn)
             t == [st.txn EXCEPT !.cd = loop.cd, !.failed = loop.failed]
         IN  IF loop.raised
             THEN [st EXCEPT !.txn = t, !.raised = TRUE]
             ELSE insert_records_from(constraint, SubSeq(records, n + 1, Len(records)),
                     [committed |-> CommitStore(st.committed, t),
                      txn |-> EmptyTxn,
                      inserted |-> st.inserted + loop.inserted,
                      raised |-> FALSE,
                      largest |-> Max(st.largest,
                                      Len(CommitStore(st.committed, t).cd)
                                        - Len(st.committed.cd))])

insert_records(constraint, c, t, records) ==
    insert_records_from(constraint, records,
        [committed |-> c, txn |-> t, inserted |-> 0, raised |-> FALSE, largest |-> 0])

\* The lookup keyed by the directory of the path instead of the file name.
AlreadyProcessedByDirectory(store, path) ==
    \E i \in 1..Len(store.pf) : store.pf[i].filename = path[1]

\* SELECT * FROM processed_files WHERE filename = %s, on the base name.
AlreadyProcessed(store, path) ==
    \E i \in 1..Len(store.pf) : store.pf[i].filename = basename(path)

\* ------------------------------------------------------------------------
\* Sampling.  A sample rate is the fraction num/den.

Rate(n, d) == [num |-> n, den |-> d]

\* int(1/sample_rate) for a rate greater than 0.
Stride(rate) == rate.den \div rate.num

\* list(range(0, n, int(1/sample_rate))) raises: ZeroDivisionError for a
\* rate of 0, ValueError for a step of 0.
SamplingRaises(rate) == rate.num = 0 \/ Stride(rate) = 0

\* list(range(0, n, step)), as 1-based positions in stream order.
sample_indices(n, step) ==
    [m \in 1..((n + step - 1) \div step) |-> (m - 1) * step + 1]

\* int(total_records * sample_rate) if enable_verification else None
sample_size(total, call) ==
    IF call.enable_verification
    THEN << (total * call.sample_rate.num) \div call.sample_rate.den >>
    ELSE <<>>

\* SELECT id FROM counselling_data WHERE rank = .. AND college_name = ..
\* AND course = .. ORDER BY id DESC LIMIT 1; 0 when no row matches (a
\* comparison with NULL matches nothing).
LookupId(cd, record) ==
    LET hits == { i \in 1..Len(cd) :
                    /\ record.college_name /= NULL
                    /\ record.course /= NULL
                    /\ cd[i].rank = record.rank
                    /\ cd[i].college_name = record.college_name
                    /\ cd[i].course = record.course }
    IN  IF hits = {} THEN 0 ELSE CHOOSE i \in hits : \A j \in hits : j <= i

\* for idx in sample_indices: the verification_records rows inserted, in
\* order of idx: one for every sampled record whose lookup finds a row and
\* whose page number is set.
VerificationRows(cd, records, idxs, pfid) ==
    LET Found(i) == LookupId(cd, records[i]) /= 0 /\ records[i]._page_number /= 0
        found == SelectSeq(idxs, Found)
    IN  [m \in 1..Len(found) |->
            [counselling_data_id |-> LookupId(cd, records[found[m]]),
             processed_file_id |-> pfid,
             page_number |-> records[found[m]]._page_number]]

\* ------------------------------------------------------------------------
\* Text.  A text is the sequence of its characters; None is Python's None in
\* the place of a text.

None == << "None" >>

\* The characters int() reads as decimal digits.
Digits == {"0", "1", "2", "3", "4", "5", "6", "7", "8", "9"}

\* A character str.isdigit() accepts and int() refuses (U+00B2).
SuperscriptTwo == "sup2"

\* The characters str.isdigit() accepts.
IsDigitChars == Digits \cup {SuperscriptTwo}

\* The characters str.strip() removes.
Whitespace == {" ", "\t", "\n"}

DigitValue ==
    ("0" :> 0) @@ ("1" :> 1) @@ ("2" :> 2) @@ ("3" :> 3) @@ ("4" :> 4)
      @@ ("5" :> 5) @@ ("6" :> 6) @@ ("7" :> 7) @@ ("8" :> 8) @@ ("9" :> 9)

\* str.strip()
strip(s) ==
    LET inked == { i \in 1..Len(s) : s[i] \notin Whitespace }
    IN  IF inked = {} THEN <<>>
        ELSE SubSeq(s, CHOOSE i \in inked : \A j \in inked : i <= j,
                       CHOOSE i \in inked : \A j \in inked : j <= i)

\* str.isdigit()
isdigit(s) == s /= <<>> /\ \A i \in 1..Len(s) : s[i] \in IsDigitChars

\* int(s) raises ValueError.
IntRaises(s) == s = <<>> \/ \E i \in 1..Len(s) : s[i] \notin Digits

RECURSIVE int(_)
\* int(s) for a text of decimal digits.
int(s) ==
    IF s = <<>> THEN 0
    ELSE 10 * int(SubSeq(s, 1, Len(s) - 1)) + DigitValue[s[Len(s)]]

\* The characters i..i+n-1 of s are decimal digits (\d of re).
DigitRun(s, i, n) ==
    /\ i + n - 1 <= Len(s)
    /\ \A j \in i..(i + n - 1) : s[j] \in Digits

\* The least member of a set of numbers that is not empty, and the greatest.
Least(S) == CHOOSE i \in S : \A j \in S : i <= j
Greatest(S) == CHOOSE i \in S : \A j \in S : j <= i

\* re.search(r'(\d{lo,hi})', s): group 1 of the leftmost match, taken greedily;
\* None when there is no match.
search_digits(s, lo, hi) ==
    LET starts == { i \in 1..Len(s) : DigitRun(s, i, lo) }
    IN  IF starts = {} THEN None
        ELSE LET i == Least(starts)
                 n == Greatest({ k \in lo..hi : DigitRun(s, i, k) })
             IN  SubSeq(s, i, i + n - 1)

\* The first position from i on that holds no whitespace (\s* of re).
SkipSpace(s, i) ==
    Least({ j \in i..(Len(s) + 1) : j > Len(s) \/ s[j] \notin Whitespace })

\* The end of the longest run of digits that starts at i (\d+ of re).
RunEnd(s, i) == Greatest({ j \in i..Len(s) : DigitRun(s, i, j - i + 1) })

\* re.search(r'(\d+)\s*/\s*(\d+)', s): the two groups of the leftmost match, or
\* None.  A match that starts at i takes the whole run of digits at i: a
\* shorter one is followed by a digit, which neither \s nor / accepts.
search_marks(s) ==
    LET Slash(i) == SkipSpace(s, RunEnd(s, i) + 1)
        Second(i) == SkipSpace(s, Slash(i) + 1)
        Matches(i) ==
            /\ s[i] \in Digits
            /\ Slash(i) <= Len(s)
            /\ s[Slash(i)] = "/"
            /\ Second(i) <= Len(s)
            /\ s[Second(i)] \in Digits
        starts == { i \in 1..Len(s) : Matches(i) }
    IN  IF starts = {} THEN None
        ELSE LET i == Least(starts)
             IN  << SubSeq(s, i, RunEnd(s, i)),
                    SubSeq(s, Second(i), RunEnd(s, Second(i))) >>

RECURSIVE replace(_, _, _)
\* str.replace(old, new)
replace(s, old, new) ==
    IF Len(s) < Len(old) THEN s
    ELSE IF SubSeq(s, 1, Len(old)) = old
         THEN new \o replace(SubSeq(s, Len(old) + 1, Len(s)), old, new)
         ELSE << s[1] >> \o replace(Tail(s), old, new)

\* `cell and str(cell).strip()`: the cell holds more than whitespace.
Filled(cell) == cell /= None /\ strip(cell) /= <<>>

\* ------------------------------------------------------------------------
\* Abbreviations (setup_abbreviation_mappings) and the two normalizers.

quota_mappings ==
    (<< "A", "I" >> :> << "A", "l", "l", " ", "I", "n", "d", "i", "a" >>)
        \* 'AI': 'All India'
    @@ (<< "I", "P" >> :> << "I", "P", " ", "U", "n", "i", "v", "e", "r", "s", "i", "t", "y", " ", "Q", "u", "o", "t", "a" >>)
        \* 'IP': 'IP University Quota'
    @@ (<< "D", "U" >> :> << "D", "e", "l", "h", "i", " ", "U", "n", "i", "v", "e", "r", "s", "i", "t", "y", " ", "Q", "u", "o", "t", "a" >>)
        \* 'DU': 'Delhi University Quota'
    @@ (<< "A", "D" >> :> << "D", "N", "B", " ", "Q", "u", "o", "t", "a" >>)
        \* 'AD': 'DNB Quota'
    @@ (<< "A", "F" >> :> << "A", "r", "m", "e", "d", " ", "F", "o", "r", "c", "e", "s", " ", "M", "e", "d", "i", "c", "a", "l" >>)
        \* 'AF': 'Armed Forces Medical'
    @@ (<< "A", "M" >> :> << "A", "l", "i", "g", "a", "r", "h", " ", "M", "u", "s", "l", "i", "m", " ", "U", "n", "i", "v", "e", "r", "s", "i", "t", "y" >>)
        \* 'AM': 'Aligarh Muslim University'
    @@ (<< "B", "H" >> :> << "B", "a", "n", "a", "r", "a", "s", " ", "H", "i", "n", "d", "u", " ", "U", "n", "i", "v", "e", "r", "s", "i", "t", "y" >>)
        \* 'BH': 'Banaras Hindu University'
    @@ (<< "J", "M" >> :> << "J", "a", "i", "n", " ", "M", "i", "n", "o", "r", "i", "t", "y", " ", "Q", "u", "o", "t", "a" >>)
        \* 'JM': 'Jain Minority Quota'
    @@ (<< "M", "M" >> :> << "M", "u", "s", "l", "i", "m", " ", "M", "i", "n", "o", "r", "i", "t", "y", " ", "Q", "u", "o", "t", "a" >>)
        \* 'MM': 'Muslim Minority Quota'
    @@ (<< "N", "R" >> :> << "N", "o", "n", "-", "R", "e", "s", "i", "d", "e", "n", "t", " ", "I", "n", "d", "i", "a", "n" >>)
        \* 'NR': 'Non-Resident Indian'
    @@ (<< "P", "S" >> :> << "M", "a", "n", "a", "g", "e", "m", "e", "n", "t", "/", "P", "a", "i", "d", " ", "S", "e", "a", "t", "s", " ", "Q", "u", "o", "t", "a" >>)
        \* 'PS': 'Management/Paid Seats Quota'

category_mappings ==
    (<< "B", "C" >> :> << "O", "B", "C" >>)
        \* 'BC': 'OBC'
    @@ (<< "B", "C", " ", "P", "w", "D" >> :> << "O", "B", "C", "-", "P", "w", "D" >>)
        \* 'BC PwD': 'OBC-PwD'
    @@ (<< "E", "W" >> :> << "E", "W", "S" >>)
        \* 'EW': 'EWS'
    @@ (<< "E", "W", " ", "P", "w", "D" >> :> << "E", "W", "S", "-", "P", "w", "D" >>)
        \* 'EW PwD': 'EWS-PwD'
    @@ (<< "G", "N" >> :> << "G", "E", "N", "E", "R", "A", "L" >>)
        \* 'GN': 'GENERAL'
    @@ (<< "G", "N", " ", "P", "w", "D" >> :> << "G", "E", "N", "E", "R", "A", "L", "-", "P", "w", "D" >>)
        \* 'GN PwD': 'GENERAL-PwD'
    @@ (<< "S", "C" >> :> << "S", "C" >>)
        \* 'SC': 'SC'
    @@ (<< "S", "C", " ", "P", "w", "D" >> :> << "S", "C", "-", "P", "w", "D" >>)
        \* 'SC PwD': 'SC-PwD'
    @@ (<< "S", "T" >> :> << "S", "T" >>)
        \* 'ST': 'ST'
    @@ (<< "S", "T", " ", "P", "w", "D" >> :> << "S", "T", "-", "P", "w", "D" >>)
        \* 'ST PwD': 'ST-PwD'
    @@ (<< "O", "p", "e", "n" >> :> << "G", "E", "N", "E", "R", "A", "L" >>)
        \* 'Open': 'GENERAL'

\* dict.get(key, default)
get(mapping, key, default) ==
    IF key \in DOMAIN mapping THEN mapping[key] ELSE default

\* The lookup on the token as it came, without strip().
normalize_quota_untrimmed(quota_str) ==
    IF quota_str = None \/ quota_str = <<>> THEN None
    ELSE get(quota_mappings, quota_str, quota_str)

\* normalize_quota
normalize_quota(quota_str) ==
    IF quota_str = None \/ quota_str = <<>> THEN None
    ELSE get(quota_mappings, strip(quota_str), strip(quota_str))

GENERAL == << "G", "E", "N", "E", "R", "A", "L" >>

\* normalize_category
normalize_category(category_str) ==
    IF category_str = None \/ category_str = <<>> THEN GENERAL
    ELSE get(category_mappings, strip(category_str), strip(category_str))

\* ------------------------------------------------------------------------
\* The STATE row parser on the cells of a row.  A record has every field the
\* claims look at; a key the parser did not set reads as None (record.get),
\* a number as NoRank.

NoMarks == NoRank

StateQuota == << "S", "t", "a", "t", "e", " ", "Q", "u", "o", "t", "a" >>
Reported == << "R", "e", "p", "o", "r", "t", "e", "d" >>

\* A parser's result: whether it raised, and the records it returned.
Parsed(raised, recs) == [raised |-> raised, recs |-> recs]

\* The text of a cell when it holds more than whitespace, else None.
CellText(cell) == IF Filled(cell) THEN strip(cell) ELSE None

\* course.replace('MD - ', 'M.D. ').replace('MD/MS - ', 'M.D./M.S. ')
state_course(course) ==
    replace(replace(course, << "M", "D", " ", "-", " " >>, << "M", ".", "D", ".", " " >>),
            << "M", "D", "/", "M", "S", " ", "-", " " >>, << "M", ".", "D", ".", "/", "M", ".", "S", ".", " " >>)

\* rank of parse_state_quota_row: int of the first run of 4 to 6 digits of
\* cell 10.
state_rank(cell) ==
    IF Filled(cell) /\ search_digits(strip(cell), 4, 6) /= None
    THEN int(search_digits(strip(cell), 4, 6))
    ELSE NoRank

\* marks_obtained and max_marks of parse_state_quota_row, from cell 11.
state_marks(cell) ==
    IF Filled(cell) /\ search_marks(strip(cell)) /= None
    THEN << int(search_marks(strip(cell))[1]), int(search_marks(strip(cell))[2]) >>
    ELSE << NoMarks, NoMarks >>

\* parse_state_quota_row(row).  Cell k of the source is row[k + 1] here.  A
\* row of exactly 11 cells reaches row[11], which raises IndexError inside
\* the try: the except clause returns None.
parse_state_quota_row(row) ==
    IF Len(row) < 11 THEN Parsed(FALSE, <<>>)
    ELSE IF Len(row) < 12 THEN Parsed(FALSE, <<>>)
    ELSE LET quota == normalize_quota(strip(row[7]))
             record ==
                 [college_name |-> CellText(row[2]),
                  course |-> IF Filled(row[3]) THEN state_course(strip(row[3])) ELSE None,
                  quota |-> IF Filled(row[7])
                            THEN (IF quota \in {None, <<>>} THEN StateQuota ELSE quota)
                            ELSE None,
                  category |-> IF Filled(row[8]) THEN normalize_category(strip(row[8]))
                               ELSE None,
                  rank |-> state_rank(row[11]),
                  marks_obtained |-> state_marks(row[12])[1],
                  max_marks |-> state_marks(row[12])[2],
                  year |-> 2024,
                  round |-> 1,
                  status |-> Reported]
         IN  IF record.rank /= NoRank /\ record.rank /= 0
             THEN Parsed(FALSE, << record >>)
             ELSE Parsed(FALSE, <<>>)

\* ------------------------------------------------------------------------
\* The table parsers of the All India layouts on the cells of a row.  Cell k
\* of the source is row[k + 1] here.

Dash == << "-" >>

\* `text and text not in ['-', '']` for a stripped text.
Meaningful(text) == text /= <<>> /\ text /= Dash

\* The cell at 0-based column col of the row, when the row has that column
\* and the cell is truthy: its stripped text; else None.
ColumnText(row, col) ==
    IF col < Len(row) /\ row[col + 1] /= None /\ row[col + 1] /= <<>>
    THEN strip(row[col + 1])
    ELSE None

\* extract_round_data(row, rank, round_num, start_col, end_col): a sequence
\* of no record or one.  end_col is not read.  The body raises nothing: every
\* index is checked against len(row).
extract_round_data(row, rank, round_num, start_col, end_col) ==
    IF \/ start_col >= Len(row)
       \/ ColumnText(row, start_col) = None
       \/ ~Meaningful(ColumnText(row, start_col))
    THEN <<>>
    ELSE LET college == ColumnText(row, start_col + 1)
             course == ColumnText(row, start_col + 2)
             status == ColumnText(row, start_col + 3)
             category == ColumnText(row, start_col + 4)
             record ==
                 [rank |-> rank,
                  round |-> round_num,
                  year |-> 2024,
                  quota |-> normalize_quota(ColumnText(row, start_col)),
                  college_name |-> IF college /= None /\ Meaningful(college)
                                   THEN college ELSE None,
                  course |-> IF course /= None /\ Meaningful(course)
                             THEN course ELSE None,
                  status |-> IF status /= None /\ Meaningful(status)
                             THEN status ELSE None,
                  category |-> IF category /= None /\ Meaningful(category)
                               THEN normalize_category(category) ELSE None]
         IN  IF record.college_name /= None /\ record.course /= None
             THEN << record >>
             ELSE <<>>

\* The rank cell of a row passes `row[0] and str(row[0]).strip().isdigit()`.
RankIsDigits(cell) == cell /= None /\ cell /= <<>> /\ isdigit(strip(cell))

\* for round_num, start_col, end_col in round_configs: the records of one
\* row whose rank is set, tagged with the page.
RoundRecords(row, rank, page_number) ==
    LET Of(c) ==
            IF Len(row) > round_configs[c][2]
            THEN extract_round_data(row, rank, round_configs[c][1],
                                    round_configs[c][2], round_configs[c][3])
            ELSE <<>>
        Tagged(recs) ==
            [i \in 1..Len(recs) |->
                recs[i] @@ [_page_number |-> page_number]]
    IN  Tagged(Of(1) \o Of(2) \o Of(3))

\* The loop body of parse_multi_round_table for one row: it raises when
\* int() refuses a rank that isdigit() accepted.
MultiRoundRow(row, page_number) ==
    IF Len(row) < 8 THEN Parsed(FALSE, <<>>)
    ELSE IF ~RankIsDigits(row[1]) THEN Parsed(FALSE, <<>>)
    ELSE IF IntRaises(strip(row[1])) THEN Parsed(TRUE, <<>>)
    ELSE Parsed(FALSE, RoundRecords(row, int(strip(row[1])), page_number))

RECURSIVE MultiRoundRows(_, _, _, _)
\* The rows i.. of the table in order, until one raises.
MultiRoundRows(table, i, page_number, acc) ==
    IF i > Len(table) THEN Parsed(FALSE, acc)
    ELSE LET r == MultiRoundRow(table[i], page_number)
         IN  IF r.raised THEN Parsed(TRUE, <<>>)
             ELSE MultiRoundRows(table, i + 1, page_number, acc \o r.recs)

\* parse_multi_round_table(table, default_round, page_number): the first two
\* rows are headers.
parse_multi_round_table(table, default_round, page_number) ==
    MultiRoundRows(table, 3, page_number, <<>>)

\* parse_single_round_row(row, round_number) for a row of at least 5 cells: a
\* sequence of no record or one.  Everything is inside the try: int()
\* refusing the rank gives None.
parse_single_round_row(row, round_number) ==
    IF ~RankIsDigits(row[2]) THEN <<>>
    ELSE IF IntRaises(strip(row[2])) THEN <<>>
    ELSE LET category == ColumnText(row, 5)
             status == ColumnText(row, 6)
             record ==
                 [rank |-> int(strip(row[2])),
                  round |-> round_number,
                  year |-> 2024,
                  quota |-> IF Filled(row[3]) THEN normalize_quota(strip(row[3]))
                            ELSE None,
                  college_name |-> CellText(row[4]),
                  course |-> CellText(row[5]),
                  category |-> IF category /= None /\ Meaningful(category)
                               THEN normalize_category(category) ELSE None,
                  status |-> IF status /= None /\ Meaningful(status)
                             THEN status ELSE None]
         IN  IF record.college_name /= None /\ record.course /= None
             THEN << record >>
             ELSE <<>>

RECURSIVE SingleRoundRows(_, _, _, _)
\* The rows i.. of the table in order: rows of fewer than 5 cells are left
\* out, the records of the others are tagged with the page.
SingleRoundRows(table, i, round_number, page_number) ==
    IF i > Len(table) THEN <<>>
    ELSE LET recs == IF Len(table[i]) < 5 THEN <<>>
                     ELSE parse_single_round_row(table[i], round_number)
         IN  [k \in 1..Len(recs) |-> recs[k] @@ [_page_number |-> page_number]]
                \o SingleRoundRows(table, i + 1, round_number, page_number)

\* parse_single_round_table(table, round_number, page_number) on the cells:
\* the first row is the header.  It raises nothing.
parse_single_round_cells(table, round_number, page_number) ==
    Parsed(FALSE, SingleRoundRows(table, 2, round_number, page_number))

\* ------------------------------------------------------------------------
\* parse_all_india_row of src/pdf_uploader.py on the cells of a row of the
\* Round 3 table.  Cell k of the source is row[k + 1] here.

\* `sub in s`
contains(s, sub) ==
    \E i \in 1..(Len(s) - Len(sub) + 1) : SubSeq(s, i, i + Len(sub) - 1) = sub

\* A cell that is truthy: a text that is not empty.
Truthy(cell) == cell /= None /\ cell /= <<>>

\* ['AI', 'IP', 'DU', 'All India']
LegacyQuotas ==
    { << "A", "I" >>, << "I", "P" >>, << "D", "U" >>,
      << "A", "l", "l", " ", "I", "n", "d", "i", "a" >> }

\* ['GENERAL', 'OBC', 'SC', 'ST', 'EWS']
LegacyCategories ==
    { GENERAL, << "O", "B", "C" >>, << "S", "C" >>, << "S", "T" >>,
      << "E", "W", "S" >> }

\* The text of the first of the columns lo..hi-1 (0-based) of the row that
\* is in the set, or None.
FirstText(row, cols) ==
    IF cols = {} THEN None ELSE strip(row[Least(cols) + 1])

\* parse_all_india_row(row): a sequence of no record or one.  The rank is
\* read without strip(); int() refusing a rank that isdigit() accepted is
\* caught and gives None.  The first cell of columns 9..14 that holds a quota
\* code opens the search for the institute (a text of more than 10
\* characters), the course (a text that contains 'MD' or 'MS') and the
\* category in the cells after it.  A record is returned when it has a rank
\* and a college name.
parse_all_india_row(row) ==
    IF Len(row) < 5 THEN <<>>
    ELSE IF Truthy(row[1]) /\ isdigit(row[1]) /\ IntRaises(row[1]) THEN <<>>
    ELSE LET hasRank == Truthy(row[1]) /\ isdigit(row[1])
             quotaCols == { i \in 9..(Min(Len(row), 15) - 1) :
                              Truthy(row[i + 1]) /\ strip(row[i + 1]) \in LegacyQuotas }
             i == IF quotaCols = {} THEN Len(row) ELSE Least(quotaCols)
             near == (i + 1)..(Min(Len(row), i + 4) - 1)
             institutes == { j \in near :
                               Truthy(row[j + 1]) /\ Len(strip(row[j + 1])) > 10 }
             courses == { j \in near :
                            /\ Truthy(row[j + 1])
                            /\ \/ contains(row[j + 1], << "M", "D" >>)
                               \/ contains(row[j + 1], << "M", "S" >>) }
             categories == { j \in (i + 1)..(Min(Len(row), i + 5) - 1) :
                               Truthy(row[j + 1]) /\ strip(row[j + 1]) \in LegacyCategories }
             record ==
                 [rank |-> IF hasRank THEN int(row[1]) ELSE NoRank,
                  quota |-> FirstText(row, quotaCols),
                  college_name |-> FirstText(row, institutes),
                  course |-> FirstText(row, courses),
                  category |-> FirstText(row, categories),
                  year |-> 2024,
                  round |-> 3]
         IN  IF hasRank /\ record.college_name /= None
             THEN << record >>
             ELSE <<>>

\* ------------------------------------------------------------------------
\* The processor.

VARIABLES
    committed,          \* what the store holds durably
    txn,                \* the open transaction of the connection
    unique_constraint,  \* whether counselling_data has a uniqueness constraint
    pc,                 \* where the process is
    cur,                \* the arguments of the process_pdf_file call under way
    pulled,             \* records the for loop has taken from record_generator
    current_batch,      \* current_batch
    total_records,      \* total_records
    all_records,        \* all_records of the verification pass
    result,             \* what the last process_pdf_file call returned
    calls,              \* process_pdf_file calls so far
    batches,            \* insert_records calls of this call that returned
    startLen,           \* committed counselling_data rows when the call began
    largest_commit,     \* most counselling_data rows one commit of the call wrote
    pages_read,         \* pages the call has asked the page reader for
    run,                \* the multi-document run under way
    parsed              \* the parser call made last, with what it returned

vars == << committed, txn, unique_constraint, pc, cur, pulled, current_batch,
           total_records, all_records, result, calls, batches, startLen,
           largest_commit, pages_read, run, parsed >>

NoCall ==
    [path |-> <<>>, file_type |-> "", enable_verification |-> FALSE,
     sample_rate |-> Rate(1, 10)]

NoResult == [why |-> "none", is_list |-> FALSE, n |-> 0, file |-> ""]

\* No batch_import_pdfs or process_all_pdfs_in_folder call is under way.
NoRun ==
    [kind |-> "none", dir |-> "", files |-> <<>>, file_type |-> "", i |-> 1,
     reports |-> <<>>, successful_imports |-> 0, total_new_records |-> 0,
     done |-> FALSE]

\* No parser has been called.
NoParse == [op |-> "none", input |-> <<>>, output |-> <<>>]

\* The values file_type is called with: the two formats and one that is none.
FileTypes == {"state", "all_india", "auto"}

\* The verification settings a call is made with: none (with the default
\* rate), or verification with a rate.
Settings ==
    { << FALSE, Rate(1, 10) >> }
      \cup { << TRUE, r >> : r \in { Rate(1, 10), Rate(3, 20), Rate(0, 1) } }

TypeOK ==
    /\ pc \in { "idle", "check", "fill", "insert_full", "insert_last", "log",
                "materialize", "sample", "closed", "killed", "legacy" }
    /\ unique_constraint \in BOOLEAN
    /\ calls \in 0..MaxCalls
    /\ total_records \in Nat

InitWith(constraint) ==
    /\ committed = EmptyStore
    /\ txn = EmptyTxn
    /\ unique_constraint = constraint
    /\ pc = "idle"
    /\ cur = NoCall
    /\ pulled = 0
    /\ current_batch = <<>>
    /\ total_records = 0
    /\ all_records = <<>>
    /\ result = NoResult
    /\ calls = 0
    /\ batches = 0
    /\ startLen = 0
    /\ largest_commit = 0
    /\ pages_read = 0
    /\ run = NoRun
    /\ parsed = NoParse

\* The tables as create_tables declares them.
Init == InitWith(FALSE)

\* A store whose counselling_data enforces a uniqueness constraint.
InitUnique == InitWith(TRUE)

\* The locals of process_pdf_file go when it returns.
Return(res) ==
    /\ pc' = "idle"
    /\ cur' = NoCall
    /\ pulled' = 0
    /\ current_batch' = <<>>
    /\ total_records' = 0
    /\ all_records' = <<>>
    /\ batches' = 0
    /\ result' = res

\* return [] / return total_records / return 0
Returned(why, isList, n) ==
    [why |-> why, is_list |-> isList, n |-> n, file |-> basename(cur.path)]

\* processor.process_pdf_file(pdf_path, file_type, enable_verification, sample_rate)
Call(path, file_type, setting) ==
    /\ pc = "idle"
    /\ calls < MaxCalls
    /\ calls' = calls + 1
    /\ pc' = "check"
    /\ cur' = [path |-> path, file_type |-> file_type,
               enable_verification |-> setting[1], sample_rate |-> setting[2]]
    /\ result' = NoResult
    /\ startLen' = Len(committed.cd)
    /\ largest_commit' = 0
    /\ pages_read' = 0
    /\ UNCHANGED << parsed, run, committed, txn, unique_constraint, pulled, current_batch,
                    total_records, all_records, batches >>

\* file_type not in ['state', 'all_india']
InvalidFileType(file_type) == file_type \notin {"state", "all_india"}

\* The entry of process_pdf_file: the processed_files lookup (outside the
\* try: in a failed transaction it raises out of the call), the existence
\* check and the file_type check.
Check ==
    /\ pc = "check"
    /\ IF txn.failed
       THEN Return(Returned("raised", FALSE, 0))
       ELSE IF AlreadyProcessed(View(committed, txn), cur.path)
       THEN Return(Returned("skipped", TRUE, 0))
       ELSE IF ~exists(cur.path)
       THEN Return(Returned("not_found", TRUE, 0))
       ELSE IF InvalidFileType(cur.file_type)
       THEN Return(Returned("invalid_type", TRUE, 0))
       ELSE /\ pc' = "fill"
            /\ UNCHANGED << cur, pulled, current_batch, total_records,
                            all_records, batches, result >>
    /\ UNCHANGED << parsed, run, committed, txn, unique_constraint, calls, startLen,
                    largest_commit, pages_read >>

\* The batch test with > for >=.
BatchFullLate(n) == n > batch_size

\* len(current_batch) >= batch_size
BatchFull(n) == n >= batch_size

\* The number of records the for loop takes from a stream with `left` records
\* left before it inserts: up to the first length at which the batch is full.
Taken(left) ==
    LET full == { k \in 1..left : BatchFull(k) }
    IN  IF full = {} THEN left ELSE CHOOSE k \in full : \A j \in full : k <= j

\* for record in record_generator: current_batch.append(record), up to a full
\* batch, the end of the stream, or an error raised in the generator.
Fill ==
    /\ pc = "fill"
    /\ LET gen == record_generator(cur.path, cur.file_type)
           left == Len(gen.recs) - pulled
           k == Taken(left)
           batch == SubSeq(gen.recs, pulled + 1, pulled + k)
       IN  IF k > 0 /\ BatchFull(k)
           THEN /\ current_batch' = batch
                /\ pulled' = pulled + k
                /\ pc' = "insert_full"
                /\ pages_read' = batch[k]._page_number
                /\ UNCHANGED << cur, total_records, all_records, batches, result >>
           ELSE IF gen.raised
           THEN /\ Return(Returned("error", FALSE, 0))
                /\ pages_read' = gen.pages
           ELSE /\ current_batch' = batch
                /\ pulled' = pulled + k
                /\ pc' = IF batch /= <<>> THEN "insert_last" ELSE "log"
                /\ pages_read' = gen.pages
                /\ UNCHANGED << cur, total_records, all_records, batches, result >>
    /\ UNCHANGED << parsed, run, committed, txn, unique_constraint, calls, startLen,
                    largest_commit >>

\* The processed_files row written after the first batch.
AfterInsertLogs(at) == "log"

\* Where process_pdf_file goes after insert_records returned.
AfterInsert(at) == IF at = "insert_full" THEN "fill" ELSE "log"

\* inserted_count = self.insert_records(current_batch), for a full batch and
\* for the remaining records.
Insert ==
    /\ pc \in {"insert_full", "insert_last"}
    /\ LET r == insert_records(unique_constraint, committed, txn, current_batch)
       IN  /\ committed' = r.committed
           /\ txn' = r.txn
           /\ largest_commit' = Max(largest_commit, r.largest)
           /\ IF r.raised
              THEN Return(Returned("error", FALSE, 0))
              ELSE /\ total_records' = total_records + r.inserted
                   /\ current_batch' = <<>>
                   /\ batches' = batches + 1
                   /\ pc' = AfterInsert(pc)
                   /\ UNCHANGED << cur, pulled, all_records, result >>
    /\ UNCHANGED << parsed, run, unique_constraint, calls, startLen, pages_read >>

\* The test with >= for >.
ShouldLogAlways(total) == total >= 0

\* if total_records > 0
ShouldLog(total) == total > 0

\* The processed_files row of the call.
PfRow(call, total) ==
    [filename |-> basename(call.path), file_type |-> call.file_type,
     records_count |-> total, sample_size |-> sample_size(total, call)]

\* INSERT INTO processed_files, then the verification pass or the return.
Log ==
    /\ pc = "log"
    /\ IF ShouldLog(total_records)
       THEN /\ txn' = [txn EXCEPT !.pf = Append(@, PfRow(cur, total_records))]
            /\ IF cur.enable_verification
               THEN /\ pc' = "materialize"
                    /\ UNCHANGED << cur, pulled, current_batch, total_records,
                                    all_records, batches, result >>
               ELSE Return(Returned("ok", FALSE, total_records))
       ELSE /\ txn' = txn
            /\ Return(Returned("no_data", FALSE, 0))
    /\ UNCHANGED << parsed, run, committed, unique_constraint, calls, startLen,
                    largest_commit, pages_read >>

\* all_records = list(record_generator)
Materialize ==
    /\ pc = "materialize"
    /\ LET gen == record_generator(cur.path, cur.file_type)
       IN  /\ pages_read' = pages_read + gen.pages
           /\ IF gen.raised
              THEN Return(Returned("error", FALSE, 0))
              ELSE /\ all_records' = gen.recs
                   /\ pc' = "sample"
                   /\ UNCHANGED << cur, pulled, current_batch, total_records,
                                   batches, result >>
    /\ UNCHANGED << parsed, run, committed, txn, unique_constraint, calls, startLen,
                    largest_commit >>

\* sample_indices = ...; the lookups and verification_records inserts; commit.
Sample ==
    /\ pc = "sample"
    /\ IF SamplingRaises(cur.sample_rate)
       THEN /\ UNCHANGED << committed, txn >>
            /\ Return(Returned("error", FALSE, 0))
       ELSE LET view == View(committed, txn)
                rows == VerificationRows(view.cd, all_records,
                            sample_indices(Len(all_records), Stride(cur.sample_rate)),
                            Len(view.pf))
                t == [txn EXCEPT !.vr = @ \o rows]
            IN  /\ committed' = CommitStore(committed, t)
                /\ txn' = EmptyTxn
                /\ Return(Returned("ok", FALSE, total_records))
    /\ UNCHANGED << parsed, run, unique_constraint, calls, startLen, largest_commit, pages_read >>

\* processor.close(): what the transaction has not committed is lost.
Close ==
    /\ pc = "idle"
    /\ pc' = "closed"
    /\ txn' = EmptyTxn
    /\ UNCHANGED << parsed, run, committed, unique_constraint, cur, pulled, current_batch,
                    total_records, all_records, result, calls, batches, startLen,
                    largest_commit, pages_read >>

\* The process is killed inside process_pdf_file.  The variables of the call
\* are kept as they were at that point, for the properties to refer to.
Kill ==
    /\ pc \in {"fill", "insert_full", "insert_last", "log", "materialize", "sample"}
    /\ pc' = "killed"
    /\ txn' = EmptyTxn
    /\ result' = Returned("killed_at_" \o pc, FALSE, 0)
    /\ UNCHANGED << parsed, run, committed, unique_constraint, cur, pulled, current_batch,
                    total_records, all_records, calls, batches, startLen,
                    largest_commit, pages_read >>

\* A new run: NEETPGDataProcessor() on a new connection.
Connect ==
    /\ pc \in {"closed", "killed"}
    /\ Return(NoResult)
    /\ txn' = EmptyTxn
    /\ UNCHANGED << parsed, run, committed, unique_constraint, calls, startLen,
                    largest_commit, pages_read >>

Next ==
    \/ \E path \in Paths, file_type \in FileTypes, setting \in Settings :
          Call(path, file_type, setting)
    \/ Check
    \/ Fill
    \/ Insert
    \/ Log
    \/ Materialize
    \/ Sample
    \/ Close
    \/ Kill
    \/ Connect

Spec == Init /\ [][Next]_vars

SpecUnique == InitUnique /\ [][Next]_vars

\* ------------------------------------------------------------------------
\* process_pdf_file on result documents of the rounds.

RoundNames ==
    { "Round 3 Final Result.pdf", "result.pdf", "pg_round_4.pdf",
      "round 3 vacancy.pdf", "state.pdf" }

RoundPaths == { << "data", name >> : name \in RoundNames }

\* Without verification, and with every second record sampled.
RoundSettings == { << FALSE, Rate(1, 10) >>, << TRUE, Rate(1, 2) >>, << TRUE, Rate(1, 1) >> }

NextRound ==
    \/ \E path \in RoundPaths, file_type \in {"state", "all_india"},
          setting \in RoundSettings :
          Call(path, file_type, setting)
    \/ Check
    \/ Fill
    \/ Insert
    \/ Log
    \/ Materialize
    \/ Sample
    \/ Close
    \/ Kill
    \/ Connect

SpecRound == Init /\ [][NextRound]_vars

\* ------------------------------------------------------------------------
\* Multi-document runs: batch_import_pdfs and process_all_pdfs_in_folder.
\* Both call process_pdf_file once per document, with verification left at
\* its default (disabled), on the one connection of the processor.

\* The file names a run is given or finds.
RunNames == {"round2.pdf", "mixed.pdf", "blank.pdf", "missing.pdf"}

\* The lists of one or two different names.
RunLists ==
    { << a >> : a \in RunNames }
      \cup { << p[1], p[2] >> : p \in { q \in RunNames \X RunNames : q[1] /= q[2] } }

\* 'round' in pdf_file.lower() or 'result' in pdf_file.lower(), for the names
\* of RunNames.
MentionsRound(name) == name \in {"round2.pdf"}

\* file_format of batch_import_pdfs
file_format(name) == IF MentionsRound(name) THEN "all_india" ELSE "state"

\* The defaults process_pdf_file takes when a run calls it.
DefaultSetting == << FALSE, Rate(1, 10) >>

\* pdf_path = os.path.join(pdfs_dir, pdf_file), and the paths glob returns.
RunPath(k) == << run.dir, run.files[k] >>

\* The run is between two documents.
BetweenDocuments ==
    /\ run.kind /= "none"
    /\ ~run.done
    /\ pc = "idle"
    /\ result = NoResult
    /\ run.i <= Len(run.files)

\* What a run notes of one document.  outcome is what process_pdf_file did
\* and net_added the counselling_data rows the store gained during the call
\* (stats_after - stats_before in batch_import_pdfs).
Report(status, count) ==
    [file |-> result.file, status |-> status, records_count |-> count,
     outcome |-> result.why, inserted |-> result.n,
     net_added |-> Len(committed.cd) - startLen]

\* processor.batch_import_pdfs(pdfs_dir, pdf_files)
StartBatch(files) ==
    /\ pc = "idle"
    /\ run.kind = "none"
    /\ calls = 0
    /\ run' = [NoRun EXCEPT !.kind = "batch", !.dir = "data", !.files = files]
    /\ UNCHANGED << parsed, committed, txn, unique_constraint, pc, cur, pulled,
                    current_batch, total_records, all_records, result, calls,
                    batches, startLen, largest_commit, pages_read >>

\* if not os.path.exists(pdf_path): continue
BatchSkipMissing ==
    /\ BetweenDocuments
    /\ run.kind = "batch"
    /\ ~exists(RunPath(run.i))
    /\ run' = [run EXCEPT !.i = @ + 1]
    /\ UNCHANGED << parsed, committed, txn, unique_constraint, pc, cur, pulled,
                    current_batch, total_records, all_records, result, calls,
                    batches, startLen, largest_commit, pages_read >>

\* total_records = self.process_pdf_file(pdf_path, file_format)
BatchCall ==
    /\ BetweenDocuments
    /\ run.kind = "batch"
    /\ exists(RunPath(run.i))
    /\ Call(RunPath(run.i), file_format(run.files[run.i]), DefaultSetting)

\* The rest of the loop body of batch_import_pdfs: total_records > 0 raises
\* TypeError when process_pdf_file returned a list, and an error that left
\* process_pdf_file arrives here too; both go to the except clause.
BatchReport ==
    /\ run.kind = "batch"
    /\ pc = "idle"
    /\ result /= NoResult
    /\ LET raises == result.why = "raised" \/ result.is_list
           success == ~raises /\ result.n > 0
           status == IF raises THEN "error"
                     ELSE IF success THEN "success" ELSE "no_new_records"
       IN  run' = [run EXCEPT
                     !.i = @ + 1,
                     !.reports = Append(@, Report(status, IF success THEN result.n ELSE 0)),
                     !.successful_imports = IF success THEN @ + 1 ELSE @,
                     !.total_new_records = IF success THEN @ + result.n ELSE @]
    /\ result' = NoResult
    /\ UNCHANGED << parsed, committed, txn, unique_constraint, pc, cur, pulled,
                    current_batch, total_records, all_records, calls, batches,
                    startLen, largest_commit, pages_read >>

\* processor.process_all_pdfs_in_folder(folder_path, file_type): the files
\* are those glob finds in the folder, in the order it lists them.
StartFolder(files, file_type) ==
    /\ pc = "idle"
    /\ run.kind = "none"
    /\ calls = 0
    /\ \A k \in 1..Len(files) : exists(<< "data", files[k] >>)
    /\ run' = [NoRun EXCEPT !.kind = "folder", !.dir = "data", !.files = files,
                           !.file_type = file_type]
    /\ UNCHANGED << parsed, committed, txn, unique_constraint, pc, cur, pulled,
                    current_batch, total_records, all_records, result, calls,
                    batches, startLen, largest_commit, pages_read >>

\* records = self.process_pdf_file(pdf_file, file_type)
FolderCall ==
    /\ BetweenDocuments
    /\ run.kind = "folder"
    /\ Call(RunPath(run.i), run.file_type, DefaultSetting)

\* The entry of processing_results for the document: 'status': 'success' if
\* records else 'no_data' and 'records_count': len(records) if records else
\* 0.  For a number that is not 0, len(records) raises TypeError and the
\* except clause writes the entry.
FolderReport ==
    /\ run.kind = "folder"
    /\ pc = "idle"
    /\ result /= NoResult
    /\ LET truthy == ~result.is_list /\ result.n /= 0
           raises == result.why = "raised" \/ truthy
           status == IF raises THEN "error" ELSE "no_data"
       IN  run' = [run EXCEPT
                     !.i = @ + 1,
                     !.reports = Append(@, Report(status, 0))]
    /\ result' = NoResult
    /\ UNCHANGED << parsed, committed, txn, unique_constraint, pc, cur, pulled,
                    current_batch, total_records, all_records, calls, batches,
                    startLen, largest_commit, pages_read >>

\* return stats_final / return processing_results
RunReturns ==
    /\ run.kind /= "none"
    /\ ~run.done
    /\ pc = "idle"
    /\ result = NoResult
    /\ run.i > Len(run.files)
    /\ run' = [run EXCEPT !.done = TRUE]
    /\ UNCHANGED << parsed, committed, txn, unique_constraint, pc, cur, pulled,
                    current_batch, total_records, all_records, result, calls,
                    batches, startLen, largest_commit, pages_read >>

\* processor.close() after the run.
RunClose ==
    /\ run.done
    /\ Close

NextRun ==
    \/ \E files \in RunLists : StartBatch(files)
    \/ BatchSkipMissing
    \/ BatchCall
    \/ BatchReport
    \/ \E files \in RunLists, file_type \in FileTypes : StartFolder(files, file_type)
    \/ FolderCall
    \/ FolderReport
    \/ RunReturns
    \/ RunClose
    \/ Check
    \/ Fill
    \/ Insert
    \/ Log

\* The runs of one processor on the tables as create_tables declares them.
SpecRun == Init /\ [][NextRun]_vars

\* ------------------------------------------------------------------------
\* The parsers and normalizers called on their own, on rows and tokens drawn
\* from small sets.

\* Cell 10 of a STATE row.
RankCells ==
    { None,
      <<>>,
      << " " >>,
      << "2", "5", "5", "7", "9" >>,
      << "A", "I", "R", " ", "2", "5", "5", "7", "9" >>,
      << " ", "1", "2", "3", "4", " " >>,
      << "1", "2", "3" >>,
      << "0", "0", "0", "0" >>,
      << "1", "2", " ", "3", "4", "5" >>,
      << "1", "2", "3", "4", "5", "6", "7" >> }

\* Cell 11 of a STATE row.
MarksCells ==
    { None,
      <<>>,
      << "1", "2", "0", "/", "2", "0", "0" >>,
      << "1", "2", "0", " ", "/", " ", "2", "0", "0" >>,
      << "a", "b", "c" >>,
      << "1", "2", "0", "/" >>,
      << "-" >> }

\* Cell 7 of a STATE row.
CategoryCells ==
    { None,
      <<>>,
      << " " >>,
      << "G", "N" >>,
      << " ", "G", "N", " " >>,
      << "B", "C", " ", "P", "w", "D" >>,
      << "g", "n" >>,
      << "X", "X" >> }

\* Cell 1 of a STATE row.
CollegeCells ==
    { None,
      << "C", "o", "l", "l", " ", "A" >> }

\* Cell 2 of a STATE row.
CourseCells ==
    { None,
      << "M", "D", " ", "-", " ", "A", "n", "a", "t" >> }

\* The numbers of cells of a STATE row.
RowLengths == {10, 11, 12, 17}

\* A STATE row of n cells.
StateRow(n, college, course, category, rank, marks) ==
    [k \in 1..n |->
        CASE k = 2 -> college
          [] k = 3 -> course
          [] k = 7 -> << "A", "I" >>
          [] k = 8 -> category
          [] k = 11 -> rank
          [] k = 12 -> marks
          [] OTHER -> << "x" >>]

StateRows ==
    { StateRow(n, college, course, category, rank, marks) :
        n \in RowLengths, college \in CollegeCells, course \in CourseCells,
        category \in CategoryCells, rank \in RankCells, marks \in MarksCells }

\* Arguments of normalize_quota.
QuotaTokens ==
    { None,
      <<>>,
      << " " >>,
      << "A", "I" >>,
      << " ", "A", "I", " " >>,
      << "a", "i" >>,
      << "P", "S" >>,
      << "A", "l", "l", " ", "I", "n", "d", "i", "a" >>,
      << "X", "X" >>,
      << " ", "X", "X" >>,
      << "X", " ", "Y" >> }

\* Arguments of normalize_category.
CategoryTokens ==
    { None,
      <<>>,
      << " " >>,
      << " ", " " >>,
      << "G", "N" >>,
      << " ", "G", "N", " " >>,
      << "g", "n" >>,
      << "O", "p", "e", "n" >>,
      << "B", "C", " ", "P", "w", "D" >>,
      << "S", "C" >>,
      << "X", "X" >>,
      << "X", "X", " " >> }

\* The four cells of one round in a multi-round row: quota, college, course
\* and status.
RoundGroups ==
    { << << "A", "I" >>, << "C", "o", "l", "l", " ", "A" >>, << "M", "D" >>, << "A", "l", "l", "o", "t", "t", "e", "d" >> >>,
      << << "D", "U" >>, << "C", "o", "l", "l", " ", "B" >>, << "M", "S" >>, None >>,
      << Dash, Dash, Dash, Dash >> }

\* Cell 0 of a multi-round row and cell 1 of a single-round row.
AllIndiaRankCells ==
    { << "1", "0", "1" >>, << " ", "1", "0", "2", " " >>, None, << "x" >>, << SuperscriptTwo >>,
      << "0" >> }

\* A multi-round row: the rank, three groups, a cell after them, cut to n
\* cells.
MultiRoundRowOf(n, rank, g1, g2, g3, last) ==
    SubSeq(<< rank >> \o g1 \o g2 \o g3 \o << last >>, 1, n)

MultiRoundRowsIn ==
    { MultiRoundRowOf(n, rank, g1, g2, g3, last) :
        n \in {7, 9, 13, 14}, rank \in { << "1", "0", "1" >>, None, << SuperscriptTwo >> },
        g1 \in RoundGroups, g2 \in RoundGroups, g3 \in RoundGroups,
        last \in { None, << "G", "N" >> } }

\* The two header rows of a multi-round table.
MultiRoundHeader == << << << "R" >> >>, << << "Q" >> >> >>

\* Tables of one data row, and tables of two: a row with a rank cell of every
\* kind, then a good row.
MultiRoundTables ==
    { MultiRoundHeader \o << row >> : row \in MultiRoundRowsIn }
      \cup { MultiRoundHeader
               \o << MultiRoundRowOf(14, rank, << Dash, Dash, Dash, Dash >>,
                                     << Dash, Dash, Dash, Dash >>,
                                     << Dash, Dash, Dash, Dash >>, None),
                     MultiRoundRowOf(14, << "1", "0", "3" >>,
                                     << << "A", "I" >>, << "C", "o", "l", "l", " ", "A" >>, << "M", "D" >>, << "A", "l", "l", "o", "t", "t", "e", "d" >> >>,
                                     << Dash, Dash, Dash, Dash >>,
                                     << Dash, Dash, Dash, Dash >>, None) >> :
             rank \in AllIndiaRankCells }

\* The four cells of a round's window with a category in the fourth, as the
\* final-result tables print round 3, with and without a quota.
CategoryGroups ==
    { << << "A", "I" >>, << "C", "o", "l", "l", " ", "A" >>, << "M", "D" >>, GENERAL >>,
      << << "A", "I" >>, << "C", "o", "l", "l", " ", "A" >>, << "M", "D" >>, << "G", "N" >> >>,
      << <<>>, << "C", "o", "l", "l", " ", "A" >>, << "M", "D" >>, GENERAL >>,
      << Dash, Dash, Dash, Dash >> }

\* Rows of 13 and of 14 cells whose windows hold such groups.
CategoryRowsIn ==
    { MultiRoundRowOf(n, rank, g1, g2, g3, last) :
        n \in {13, 14}, rank \in { << "1", "0", "1" >>, << "0" >> },
        g1 \in CategoryGroups, g2 \in CategoryGroups, g3 \in CategoryGroups,
        last \in { None, << "A", "l", "l", "o", "t", "t", "e", "d" >> } }

CategoryTables == { MultiRoundHeader \o << row >> : row \in CategoryRowsIn }

\* A single-round row: serial number, rank, quota, college, course, category
\* and remarks, cut to n cells.
SingleRoundRowOf(n, rank, college, course, category) ==
    SubSeq(<< << "1" >>, rank, << "A", "I" >>, college, course, category, << "A", "l", "l", "o", "t", "t", "e", "d" >> >>, 1, n)

SingleRoundRowsIn ==
    { SingleRoundRowOf(n, rank, college, course, category) :
        n \in {4, 5, 6, 7}, rank \in AllIndiaRankCells,
        college \in CollegeCells, course \in CourseCells,
        category \in { None, Dash, << "G", "N" >> } }

\* Tables of a header and one row, and of a header, a row and a good row.
SingleRoundTables ==
    { << << << "H" >> >>, row >> : row \in SingleRoundRowsIn }
      \cup { << << << "H" >> >>, row,
                SingleRoundRowOf(7, << "2", "0", "3" >>, << "C", "o", "l", "l", " ", "A" >>, << "M", "D" >>, None) >> :
             row \in { SingleRoundRowOf(7, rank, << "C", "o", "l", "l", " ", "A" >>, << "M", "D" >>, None) :
                         rank \in AllIndiaRankCells } }

\* The round numbers the single-round parser is called with.
RoundNumbers == {4, 5}

\* What page.extract_text() gives for a page without tables.
FallbackPages ==
    { BlankPage, TextPage(<<>>),
      TextPage(<< Row(0, 5005, "Text College", "M.D. Paediatrics"),
                  Row(0, NoRank, NULL, NULL) >>),
      \* '101 AI  M.D. Anatomy Reported': the first pattern matches with
      \* group 3 = ' ', and group(3).strip() is ''.
      TextPage(<< Row(0, 101, "", "M.D. Anatomy") >>),
      \* '0 AI Some College M.D. Anatomy Reported': (\d+) captures '0'.
      TextPage(<< Row(0, 0, "Some College", "M.D. Anatomy") >>) }

\* Rows of the Round 3 table parse_all_india_row of src/pdf_uploader.py is
\* called with: the rank, eight cells of rounds 1 and 2, then quota,
\* institute, course, category and remarks of round 3, cut to n cells.
LegacyRowOf(n, rank, quota, institute, course) ==
    SubSeq(<< rank, Dash, Dash, Dash, Dash, Dash, Dash, Dash, Dash,
              quota, institute, course, GENERAL,
              << "A", "l", "l", "o", "t", "t", "e", "d" >> >>, 1, n)

LegacyRowsIn ==
    { LegacyRowOf(n, rank, quota, institute, course) :
        n \in {4, 13, 14},
        rank \in { << "1", "0", "1" >>, None, << SuperscriptTwo >>, << "0" >> },
        quota \in { << "A", "I" >>, << "X", "X" >>, << " ", "D", "U" >> },
        institute \in { << "E", "x", "a", "m", "p", "l", "e", " ", "C", "o", "l", "l", "e", "g", "e" >>,
                        << "C", "o", "l", "l", " ", "A" >> },
        course \in { << "M", ".", "D", ".", " ", "A", "n", "a", "t", "o", "m", "y" >>,
                     << "M", "D", " ", "A", "n", "a", "t", "o", "m", "y" >>,
                     None } }

\* A parser or normalizer is called and returns.
Called(op, input, output) ==
    /\ parsed = NoParse
    /\ parsed' = [op |-> op, input |-> input, output |-> output]
    /\ UNCHANGED << committed, txn, unique_constraint, pc, cur, pulled,
                    current_batch, total_records, all_records, result, calls,
                    batches, startLen, largest_commit, pages_read, run >>

CallParseStateRow ==
    \E row \in StateRows :
        Called("parse_state_quota_row", row, parse_state_quota_row(row))

CallNormalizeQuota ==
    \E token \in QuotaTokens :
        Called("normalize_quota", token, normalize_quota(token))

CallNormalizeCategory ==
    \E token \in CategoryTokens :
        Called("normalize_category", token, normalize_category(token))

CallParseMultiRound ==
    \E table \in MultiRoundTables \cup CategoryTables :
        Called("parse_multi_round_table", table,
               parse_multi_round_table(table, 3, 1))

CallParseSingleRound ==
    \E table \in SingleRoundTables, round_number \in RoundNumbers :
        Called("parse_single_round_table", << table, round_number >>,
               parse_single_round_cells(table, round_number, 1))

\* text = page.extract_text(); parse_all_india_text(text, ...): text.split
\* raises when text is None.
CallParseText ==
    \E page \in FallbackPages :
        Called("parse_all_india_text", page,
               IF FallbackRaises(page) THEN Parsed(TRUE, <<>>)
               ELSE Parsed(FALSE, parse_all_india_text(page.lines, 1)))

\* record = self.parse_all_india_row(row) of src/pdf_uploader.py
CallParseAllIndiaRow ==
    \E row \in LegacyRowsIn :
        Called("parse_all_india_row", row, Parsed(FALSE, parse_all_india_row(row)))

NextParse ==
    \/ CallParseStateRow
    \/ CallNormalizeQuota
    \/ CallNormalizeCategory
    \/ CallParseMultiRound
    \/ CallParseSingleRound
    \/ CallParseText
    \/ CallParseAllIndiaRow

\* The parsers and normalizers on their own.
SpecParse == Init /\ [][NextParse]_vars

\* ------------------------------------------------------------------------
\* Notions the properties are stated with.

\* A processed_files row for a file name exists in a store.
HasProcessedFile(store, name) ==
    \E i \in 1..Len(store.pf) : store.pf[i].filename = name

\* What the connection sees now, and after the step.
Session == View(committed, txn)
SessionAfter == View(committed', txn')

\* A process_pdf_file call is past its entry checks (or was killed there).
Ingesting ==
    pc \in {"fill", "insert_full", "insert_last", "log", "materialize", "sample", "killed"}

\* The record stream of the call under way.
CurStream == record_generator(cur.path, cur.file_type)

\* The counselling_data rows of a sequence of records.
RowsOf(records) == [i \in 1..Len(records) |-> CdRow(records[i])]

\* The rows that were committed before the call under way began.
Before == SubSeq(committed.cd, 1, startLen)

\* ------------------------------------------------------------------------
\* The SQLite processor of src/pdf_uploader.py: process_pdf_file there builds
\* the whole list of records, inserts it, logs the file and commits, in one
\* call without batches.

\* The path as the text process_pdf_file is given.
PathString(path) == path[1] \o "/" \o path[2]

\* SELECT * FROM processed_files WHERE filename = ?, on pdf_path.
LegacyProcessed(store, path) ==
    \E i \in 1..Len(store.pf) : store.pf[i].filename = PathString(path)

\* The file type the call settles on: 'auto' reads the text of the first
\* page, and the modelled documents carry none of the state markers.
LegacyFileType(file_type) == IF file_type = "state" THEN "state" ELSE "all_india"

\* parse_all_india_row returns a record: rank and college name are set.
LegacyRowYields(row) ==
    /\ row.len >= 5
    /\ row.rank /= NoRank
    /\ row.college_name /= NULL

\* The rows of a table after its first three.
LegacyDataRows(table) ==
    IF Len(table) <= 3 THEN <<>> ELSE SubSeq(table, 4, Len(table))

RECURSIVE LegacyTablesRecords(_)
LegacyTablesRecords(tables) ==
    IF tables = <<>> THEN <<>>
    ELSE WithRound(RowRecords(SelectSeq(LegacyDataRows(Head(tables)), LegacyRowYields), 0), 3)
            \o LegacyTablesRecords(Tail(tables))

RECURSIVE legacy_all_india_from(_, _, _)
\* process_all_india_pdf of src/pdf_uploader.py: the table rows, or the text
\* fallback, whose text.split raises for a page without text.
legacy_all_india_from(pages, pn, acc) ==
    IF pn > Len(pages) THEN Yielded(acc, FALSE, Len(pages))
    ELSE IF pages[pn].tables /= <<>>
         THEN legacy_all_india_from(pages, pn + 1,
                  acc \o LegacyTablesRecords(pages[pn].tables))
         ELSE IF pages[pn].textNull
              THEN Yielded(acc, TRUE, pn)
              ELSE legacy_all_india_from(pages, pn + 1,
                       acc \o parse_all_india_text(pages[pn].lines, 0))

\* records of process_pdf_file for a file that exists.
LegacyRecords(path, file_type) ==
    IF file_type = "auto" /\ Pages(path)[1].textNull
    THEN Yielded(<<>>, TRUE, 1)
    ELSE IF LegacyFileType(file_type) = "state"
    THEN process_state_quota_pdf(path)
    ELSE legacy_all_india_from(Pages(path), 1, <<>>)

\* processor.process_pdf_file(pdf_file, file_type)
LegacyCall(path, file_type) ==
    /\ pc = "idle"
    /\ calls < MaxCalls
    /\ calls' = calls + 1
    /\ pc' = "legacy"
    /\ cur' = [NoCall EXCEPT !.path = path, !.file_type = file_type]
    /\ result' = NoResult
    /\ startLen' = Len(committed.cd)
    /\ UNCHANGED << parsed, run, committed, txn, unique_constraint, pulled,
                    current_batch, total_records, all_records, batches,
                    largest_commit, pages_read >>

\* The body of process_pdf_file: the lookup, the records, insert_records with
\* its commit, the processed_files row with its commit.  A file that does not
\* exist makes pdfplumber.open raise out of the call.
LegacyProcess ==
    /\ pc = "legacy"
    /\ IF LegacyProcessed(committed, cur.path)
       THEN /\ Return(Returned("skipped", FALSE, 0))
            /\ committed' = committed
       ELSE IF ~exists(cur.path)
       THEN /\ Return(Returned("raised", FALSE, 0))
            /\ committed' = committed
       ELSE LET gen == LegacyRecords(cur.path, cur.file_type)
            IN  IF gen.raised
                THEN /\ Return(Returned("raised", FALSE, 0))
                     /\ committed' = committed
                ELSE IF gen.recs = <<>>
                THEN /\ Return(Returned("no_data", TRUE, 0))
                     /\ committed' = committed
                ELSE /\ Return(Returned("ok", TRUE, Len(gen.recs)))
                     /\ committed' =
                          [committed EXCEPT
                             !.cd = @ \o RowsOf(gen.recs),
                             !.pf = Append(@, [filename |-> PathString(cur.path),
                                               file_type |-> LegacyFileType(cur.file_type),
                                               records_count |-> Len(gen.recs),
                                               sample_size |-> <<>>])]
    /\ UNCHANGED << parsed, run, txn, unique_constraint, calls, startLen,
                    largest_commit, pages_read >>

NextLegacy ==
    \/ \E path \in Paths, file_type \in FileTypes : LegacyCall(path, file_type)
    \/ LegacyProcess
    \/ Close
    \/ Connect

\* The SQLite processor.
SpecLegacy == Init /\ [][NextLegacy]_vars

\* ------------------------------------------------------------------------
\* C1: a process_pdf_file call for a file name that already has a
\* processed_files row returns at its entry check: it reads no page and
\* leaves the store and the open transaction as they were, whatever the
\* layout and the verification setting of the call.
C1_ReingestIsNoOp ==
    [][ (pc = "check" /\ HasProcessedFile(Session, basename(cur.path)))
          => /\ pc' = "idle"
             /\ result'.why = "skipped"
             /\ committed' = committed
             /\ txn' = txn
             /\ pages_read' = 0 ]_vars

\* A call was skipped for a document whose records are in the store.
C1_Witness ==
    /\ pc = "idle"
    /\ result.why = "skipped"
    /\ calls = 2
    /\ Len(committed.cd) > 0
    /\ pages_read = 0

\* C2: when process_pdf_file has returned the count of at least one inserted
\* record, the processed_files row of the document is committed.
C2_RowCommittedAtReturn ==
    (pc = "idle" /\ result.why = "ok") => HasProcessedFile(committed, result.file)

\* C3: for a document whose stream yields no record, the call ends with
\* nothing inserted and no processed_files row, and every call on that
\* document gets past the entry checks into the extraction.
ZeroStream ==
    /\ cur /= NoCall
    /\ exists(cur.path)
    /\ ~InvalidFileType(cur.file_type)
    /\ CurStream.recs = <<>>
    /\ ~CurStream.raised

C3_EmptyDocumentStaysEligible ==
    [][ ZeroStream =>
          /\ (pc = "check" => pc' = "fill")
          /\ (pc = "log" /\ pc' = "idle") =>
                /\ result'.why = "no_data"
                /\ result'.n = 0
                /\ committed' = committed
                /\ Len(committed.cd) = startLen
                /\ ~HasProcessedFile(SessionAfter, basename(cur.path)) ]_vars

\* The second call of a behaviour read the pages of a document and found no
\* record in it, and no processed_files row was written.
C3_Witness ==
    /\ pc = "idle"
    /\ result.why = "no_data"
    /\ calls = 2
    /\ pages_read > 0
    /\ ~HasProcessedFile(Session, result.file)

\* C4: no commit of an ingestion writes more than 100 records, and at every
\* point of it, also when the process is killed there, the committed rows
\* are those from before the call followed by the first i*100 records of the
\* stream (all of them after the last batch), i the number of batches
\* committed so far.
C4_BatchesCommitInOrder ==
    (Ingesting /\ cur /= NoCall) =>
        /\ largest_commit <= 100
        /\ committed.cd =
              Before \o RowsOf(SubSeq(CurStream.recs, 1,
                                      Min(batches * 100, Len(CurStream.recs))))

\* Killed after the second batch commit of a document of more than 200
\* records.
C4_Witness ==
    /\ pc = "killed"
    /\ batches = 2
    /\ Len(CurStream.recs) > 200
    /\ Len(committed.cd) = startLen + 200

\* C5: the step that writes the processed_files row of a document finds all
\* records of its stream committed, and a run killed before that step leaves
\* the committed batches and no processed_files row.
KilledMidDocument ==
    /\ pc = "killed"
    /\ result.why \in {"killed_at_fill", "killed_at_insert_full", "killed_at_insert_last"}

C5_LoggedAfterAllBatches ==
    /\ [][ Len(SessionAfter.pf) > Len(Session.pf)
             => /\ cur /= NoCall
                /\ SessionAfter.pf[Len(SessionAfter.pf)].filename = basename(cur.path)
                /\ committed.cd = Before \o RowsOf(CurStream.recs) ]_vars
    /\ [](KilledMidDocument =>
             /\ ~HasProcessedFile(committed, basename(cur.path))
             /\ Len(committed.cd) = startLen + Min(batches * 100, Len(CurStream.recs)))

\* Killed between two batches: one batch is committed, no row is logged.
C5_Witness ==
    /\ KilledMidDocument
    /\ batches = 1
    /\ Len(committed.cd) = startLen + 100
    /\ ~HasProcessedFile(committed, basename(cur.path))

\* C6: when the store refuses a record of a batch as a duplicate,
\* insert_records still returns, the batch is committed and every record of
\* the batch that is no duplicate is persisted.
BatchRows == RowsOf(current_batch)

IsDuplicate(j) ==
    Rejects(unique_constraint, Session.cd \o SubSeq(BatchRows, 1, j - 1), BatchRows[j])

NonDuplicates ==
    LET keep == SelectSeq([j \in 1..Len(BatchRows) |-> j], LAMBDA j : ~IsDuplicate(j))
    IN  [m \in 1..Len(keep) |-> BatchRows[keep[m]]]

C6_DuplicateNeverAbortsBatch ==
    [][ ( /\ pc \in {"insert_full", "insert_last"}
          /\ pc' /= "killed"
          /\ \E j \in 1..Len(BatchRows) : IsDuplicate(j) )
          => /\ pc' = AfterInsert(pc)
             /\ committed'.cd = Session.cd \o NonDuplicates ]_vars

\* C7: at every point of process_pdf_file at most 100 extracted records are
\* held, in the batch and in the verification pass.
C7_MemoryBounded ==
    /\ Len(current_batch) <= 100
    /\ Len(all_records) <= 100

\* C8: the verification pass of a call with a rate in (0,1] creates one
\* verification_records row for each of the stream positions 0, k, 2k, ...
\* with k = round(1/rate), with the page of that record.
ValidRate(rate) == rate.num > 0 /\ rate.num <= rate.den

\* round(den/num) as Python rounds: to the nearest, a tie to the even one.
PyRound(num, den) ==
    LET q == den \div num
        twice == 2 * (den % num)
    IN  IF twice < num THEN q
        ELSE IF twice > num THEN q + 1
        ELSE IF q % 2 = 0 THEN q ELSE q + 1

ClaimedSample ==
    sample_indices(Len(all_records), PyRound(cur.sample_rate.num, cur.sample_rate.den))

NewVerificationRows == SubSeq(committed'.vr, Len(committed.vr) + 1, Len(committed'.vr))

C8_SampleEveryRoundedStride ==
    [][ (pc = "sample" /\ pc' = "idle" /\ ValidRate(cur.sample_rate))
          => /\ Len(NewVerificationRows) = Len(ClaimedSample)
             /\ \A m \in 1..Len(ClaimedSample) :
                   NewVerificationRows[m].page_number
                      = all_records[ClaimedSample[m]]._page_number ]_vars

\* C9: a call with a file_type outside the known ones or a sample rate
\* outside (0,1] reads no page and writes nothing.
ConfigurationError ==
    /\ cur /= NoCall
    /\ \/ InvalidFileType(cur.file_type)
       \/ ~ValidRate(cur.sample_rate)

C9_ConfigurationRejectedFirst ==
    ConfigurationError =>
        /\ pages_read = 0
        /\ Len(committed.cd) = startLen

\* C10: a page with no tables and no text counts as an empty page: the call
\* does not fail on it, and the records of the other pages are persisted.
IsBlank(page) == page.tables = <<>> /\ page.textNull

Unblank(pages) ==
    [i \in 1..Len(pages) |-> IF IsBlank(pages[i]) THEN TextPage(<<>>) ELSE pages[i]]

\* The stream of the call with every blank page read as an empty one.
StreamSkippingBlanks ==
    IF cur.file_type = "state"
    THEN process_state_quota_pdf_from(Unblank(Pages(cur.path)), 1, <<>>)
    ELSE process_all_india_pdf_from(Unblank(Pages(cur.path)), is_multi_round(cur.path),
                                    round_number_of(cur.path), 1, <<>>)

IngestsBlankPage ==
    /\ cur /= NoCall
    /\ ~ConfigurationError
    /\ \E i \in 1..Len(Pages(cur.path)) : IsBlank(Pages(cur.path)[i])

C10_BlankPageIsEmpty ==
    [][ (IngestsBlankPage /\ pc \in {"fill", "log", "sample"} /\ pc' = "idle")
          => /\ result'.why = "ok"
             /\ committed'.cd = Before \o RowsOf(StreamSkippingBlanks.recs) ]_vars

\* ------------------------------------------------------------------------
\* Notions of the multi-document properties.

\* The layout the run calls process_pdf_file with for its k-th file.
RunType(k) ==
    IF run.kind = "batch" THEN file_format(run.files[k]) ELSE run.file_type

\* The k-th document of the run cannot be opened or its ingestion fails.
RunDocFails(k) ==
    \/ ~exists(RunPath(k))
    \/ InvalidFileType(RunType(k))
    \/ record_generator(RunPath(k), RunType(k)).raised

\* The counselling_data rows of the documents k.. of the run that do not
\* fail: what a run of these documents alone writes.
RECURSIVE RowsOfOthers(_)
RowsOfOthers(k) ==
    IF k > Len(run.files) THEN <<>>
    ELSE (IF RunDocFails(k) THEN <<>>
          ELSE RowsOf(record_generator(RunPath(k), RunType(k)).recs))
            \o RowsOfOthers(k + 1)

\* The ingestion a report is about failed.
FailedReport(r) == r.outcome \in {"error", "raised", "not_found", "invalid_type"}

\* C11: in a multi-document run a document whose ingestion fails leaves no
\* counselling_data row and no processed_files row of its own, and when the
\* run returns the store holds the rows of the other documents exactly as a
\* run without the failing document writes them.
C11_FailedDocumentLeavesNothing ==
    /\ \A k \in 1..Len(run.reports) :
          FailedReport(run.reports[k]) =>
              /\ run.reports[k].net_added = 0
              /\ ~HasProcessedFile(Session, run.reports[k].file)
    /\ (run.done /\ pc = "idle") => Session.cd = RowsOfOthers(1)

\* C12: every entry process_all_pdfs_in_folder reports matches the ingestion
\* of its document: 'success' with the number of inserted records when
\* records were inserted, and 'error' only when the ingestion failed.
C12_ReportMatchesOutcome ==
    run.kind = "folder" =>
        \A k \in 1..Len(run.reports) :
            LET r == run.reports[k]
            IN  /\ r.inserted > 0 =>
                      (r.status = "success" /\ r.records_count = r.inserted)
                /\ r.status = "error" => FailedReport(r)

\* ------------------------------------------------------------------------
\* Notions of the parser properties.

\* parse_state_quota_row was called on a row of at least 11 cells.
StateCall == parsed.op = "parse_state_quota_row" /\ Len(parsed.input) >= 11

\* The runs of 4 to 6 digits a cell contains.
RankRuns(cell) ==
    IF cell = None THEN {}
    ELSE { SubSeq(cell, p[1], p[1] + p[2] - 1) :
             p \in { q \in (1..Len(cell)) \X (4..6) : DigitRun(cell, q[1], q[2]) } }

\* C13: for a STATE row of at least 11 cells, a rank cell that contains a run
\* of 4 to 6 digits gives a record whose rank is that run, and a rank cell
\* without such a run gives no record.
C13_RankIsTheDigitRun ==
    StateCall =>
        LET runs == RankRuns(parsed.input[11])
            recs == parsed.output.recs
        IN  IF runs /= {}
            THEN Len(recs) = 1 /\ recs[1].rank \in { int(r) : r \in runs }
            ELSE recs = <<>>

\* The marks cell of a row: None when the row has no cell 11.
MarksCell(row) == IF Len(row) >= 12 THEN row[12] ELSE None

\* A text of the form <int>/<int>, whitespace allowed around the slash.
MarksForm(cell) ==
    /\ Filled(cell)
    /\ LET s == strip(cell)
       IN  /\ s[1] \in Digits
           /\ SkipSpace(s, RunEnd(s, 1) + 1) <= Len(s)
           /\ s[SkipSpace(s, RunEnd(s, 1) + 1)] = "/"
           /\ LET second == SkipSpace(s, SkipSpace(s, RunEnd(s, 1) + 1) + 1)
              IN  second <= Len(s) /\ s[second] \in Digits /\ RunEnd(s, second) = Len(s)

\* The two integers of a text of that form.
MarksOf(cell) ==
    LET s == strip(cell)
        second == SkipSpace(s, SkipSpace(s, RunEnd(s, 1) + 1) + 1)
    IN  << int(SubSeq(s, 1, RunEnd(s, 1))), int(SubSeq(s, second, Len(s))) >>

\* C14: a marks cell <int>/<int> sets marks_obtained and max_marks to the two
\* integers; a malformed, blank or absent marks cell leaves the two unset and
\* does not keep the row's rank, college and course from becoming a record.
C14_MarksNeverBlockTheRow ==
    StateCall =>
        LET row == parsed.input
            recs == parsed.output.recs
            rank == state_rank(row[11])
        IN  /\ (rank /= NoRank /\ rank /= 0) =>
                  /\ Len(recs) = 1
                  /\ recs[1].rank = rank
                  /\ recs[1].college_name = CellText(row[2])
                  /\ (recs[1].course = None) = ~Filled(row[3])
            /\ recs /= <<>> =>
                  IF MarksForm(MarksCell(row))
                  THEN << recs[1].marks_obtained, recs[1].max_marks >> = MarksOf(MarksCell(row))
                  ELSE << recs[1].marks_obtained, recs[1].max_marks >> = << NoMarks, NoMarks >>

\* C15: every record of the STATE parser has a category that is not null:
\* the category cell through normalize_category, GENERAL for a blank or null
\* cell.
C15_StateCategoryNeverNull ==
    (StateCall /\ parsed.output.recs /= <<>>) =>
        LET cell == parsed.input[8]
            category == parsed.output.recs[1].category
        IN  /\ category /= None
            /\ category = IF Filled(cell) THEN normalize_category(cell) ELSE GENERAL

\* An empty or missing token, a whitespace-only one included.
BlankToken(token) == token = None \/ strip(token) = <<>>

\* C16: normalize_category never returns null or an empty text: a token of
\* the table gives its canonical value, a blank or missing one GENERAL, any
\* other token itself.
C16_CategoryNeverEmpty ==
    parsed.op = "normalize_category" =>
        LET token == parsed.input
        IN  /\ parsed.output /= None
            /\ parsed.output /= <<>>
            /\ parsed.output =
                 IF BlankToken(token) THEN GENERAL
                 ELSE get(category_mappings, token, token)

\* C17 as the specification states it: a token of the quota table gives its
\* canonical value by exact match, and every other token is returned
\* unchanged, character for character.
C17_QuotaExactOrUnchanged ==
    parsed.op = "normalize_quota" =>
        parsed.output = get(quota_mappings, parsed.input, parsed.input)

\* C17, amended: normalize_quota returns null for an empty or missing token;
\* any other token is first trimmed of surrounding whitespace, and the
\* trimmed token gives its canonical value when it is, case-sensitively and
\* exactly, a key of the quota table, and is returned itself when it is not.
C17_QuotaTrimmedThenExact ==
    parsed.op = "normalize_quota" =>
        LET token == parsed.input
        IN  IF token = None \/ token = <<>>
            THEN parsed.output = None
            ELSE /\ strip(token) \in DOMAIN quota_mappings
                      => parsed.output = quota_mappings[strip(token)]
                 /\ strip(token) \notin DOMAIN quota_mappings
                      => parsed.output = strip(token)

\* normalize_quota has been called on a key of the table with whitespace
\* around it.
C17_Witness ==
    /\ parsed.op = "normalize_quota"
    /\ parsed.input = << " ", "A", "I", " " >>
    /\ parsed.output = << "A", "l", "l", " ", "I", "n", "d", "i", "a" >>

\* A row parser, table parser or text-line parser was called.
ParserCall ==
    parsed.op \in { "parse_state_quota_row", "parse_multi_round_table",
                    "parse_single_round_table", "parse_all_india_text" }

\* C18: no row parser and no text-line parser lets an error escape: whatever
\* the rows, the cells and the page text, each returns its records without
\* raising.
C18_ParsersNeverRaise == ParserCall => ~parsed.output.raised

\* The cells of round w's column window, and those of the other rounds'.
Window(w) == (round_configs[w][2] + 1)..round_configs[w][3]
OtherWindows(w) == UNION { Window(v) : v \in (1..3) \ {w} }

\* The record of round w that parse_multi_round_table gives for a row.
WindowRecord(row, w) ==
    LET OfRound(record) == record.round = w
    IN  SelectSeq(parse_multi_round_table(MultiRoundHeader \o << row >>, 3, 1).recs,
                  OfRound)

\* Two rows of the same length differ only in cells of the windows of rounds
\* other than w.
DifferOnlyInOtherWindows(row, other, w) ==
    /\ Len(other) = Len(row)
    /\ \A k \in 1..Len(row) : k \notin OtherWindows(w) => other[k] = row[k]

\* C20: the round windows of the multi-round parser are independent: the
\* record of round w, and whether there is one, is the same for two rows that
\* differ only in cells of other rounds' windows.
C20_RoundWindowsIndependent ==
    (parsed.op = "parse_multi_round_table" /\ Len(parsed.input) = 3) =>
        \A w \in 1..3 : \A other \in MultiRoundRowsIn :
            DifferOnlyInOtherWindows(parsed.input[3], other, w)
                => WindowRecord(other, w) = WindowRecord(parsed.input[3], w)

\* The names processed_files would hold if it held base names.
BaseNames == { basename(path) : path \in Paths }

\* A call is at its lookup and a document with the base name of its path has
\* been ingested and logged, under whichever path.
SameNameProcessed ==
    /\ pc \in {"check", "legacy"}
    /\ \E path \in Paths :
          /\ basename(path) = basename(cur.path)
          /\ \E i \in 1..Len(Session.pf) :
                Session.pf[i].filename \in {basename(path), PathString(path)}

\* C19: the identity of a document is its base file name: a call on any path
\* whose base name has been ingested and logged is skipped and leaves the
\* store as it was, and every processed_files row holds a base name, not a
\* path.
C19_IdentityIsBaseName ==
    /\ [][ SameNameProcessed =>
              /\ pc' = "idle"
              /\ result'.why = "skipped"
              /\ committed' = committed
              /\ txn' = txn ]_vars
    /\ [](\A i \in 1..Len(Session.pf) : Session.pf[i].filename \in BaseNames)

\* ------------------------------------------------------------------------
\* Notions of the round-window properties.

\* A token of the category table, abbreviated or canonical.
KnownCategory(text) ==
    \/ text \in DOMAIN category_mappings
    \/ \E k \in DOMAIN category_mappings : category_mappings[k] = text

\* Cell k (0..3) of the window of round w in a row; None past the row's end.
WindowCell(row, w, k) ==
    IF round_configs[w][2] + k < Len(row)
    THEN row[round_configs[w][2] + k + 1]
    ELSE None

\* The window of round w holds a quota, an institute, a course and a known
\* category token.
WindowComplete(row, w) ==
    /\ \A k \in 0..3 :
          Filled(WindowCell(row, w, k)) /\ Meaningful(strip(WindowCell(row, w, k)))
    /\ KnownCategory(strip(WindowCell(row, w, 3)))

\* The quota cell of the window of round w is '-' or empty.
WindowPlaceholder(row, w) ==
    \/ ~Filled(WindowCell(row, w, 0))
    \/ strip(WindowCell(row, w, 0)) = Dash

\* parse_multi_round_table was called on a table of one data row whose rank
\* cell is a decimal number.
NumericRankRowCall ==
    /\ parsed.op = "parse_multi_round_table"
    /\ Len(parsed.input) = 3
    /\ RankIsDigits(parsed.input[3][1])
    /\ ~IntRaises(strip(parsed.input[3][1]))

\* The records of round w in what the parser returned.
RecordsOfRound(w) ==
    LET OfRound(record) == record.round = w
    IN  SelectSeq(parsed.output.recs, OfRound)

\* C21: for a multi-round row with a numeric rank, a round window that holds
\* quota, institute, course and category gives exactly one record of that
\* round, with the normalized quota, the institute, the course and the
\* category of the window; a window whose quota cell is '-' or empty gives no
\* record of that round.
C21_WindowGivesItsRecord ==
    NumericRankRowCall =>
        \A w \in 1..3 :
            LET row == parsed.input[3]
                recs == RecordsOfRound(w)
            IN  /\ WindowComplete(row, w) =>
                      /\ Len(recs) = 1
                      /\ recs[1].quota = normalize_quota(strip(WindowCell(row, w, 0)))
                      /\ recs[1].college_name = strip(WindowCell(row, w, 1))
                      /\ recs[1].course = strip(WindowCell(row, w, 2))
                      /\ recs[1].category = normalize_category(strip(WindowCell(row, w, 3)))
                /\ WindowPlaceholder(row, w) => recs = <<>>

\* ------------------------------------------------------------------------
\* C22: every record of an all-India parser (multi-round table, single-round
\* table, text fallback, and the Round 3 row parser of src/pdf_uploader.py)
\* has a rank, a college name that is not empty and a course that is not
\* empty, and a single-round row and a Round 3 row give at most one record.
CellRecordComplete(record) ==
    /\ record.rank /= NoRank
    /\ record.college_name /= None /\ record.college_name /= <<>>
    /\ record.course /= None /\ record.course /= <<>>

LineRecordComplete(record) ==
    /\ record.rank /= NoRank
    /\ record.college_name /= NULL /\ record.college_name /= ""
    /\ record.course /= NULL /\ record.course /= ""

C22_AllIndiaRecordsComplete ==
    /\ parsed.op \in { "parse_multi_round_table", "parse_single_round_table",
                       "parse_all_india_row" }
          => \A i \in 1..Len(parsed.output.recs) :
                CellRecordComplete(parsed.output.recs[i])
    /\ parsed.op = "parse_all_india_text"
          => \A i \in 1..Len(parsed.output.recs) :
                LineRecordComplete(parsed.output.recs[i])
    /\ parsed.op = "parse_single_round_table"
          => Len(parsed.output.recs) <= Len(parsed.input[1]) - 1
    /\ parsed.op = "parse_all_india_row"
          => Len(parsed.output.recs) <= 1

\* ------------------------------------------------------------------------
\* C23: every record a parser returns has a rank that is a positive integer:
\* never missing, never zero.
C23_RankIsPositive ==
    (ParserCall \/ parsed.op = "parse_all_india_row") =>
        \A i \in 1..Len(parsed.output.recs) :
            /\ parsed.output.recs[i].rank /= NoRank
            /\ parsed.output.recs[i].rank > 0

\* ------------------------------------------------------------------------
\* Notions of the record-stream properties.

\* A call with a layout the processor knows is reading a document.
Streaming ==
    /\ Ingesting
    /\ cur /= NoCall
    /\ exists(cur.path)
    /\ ~InvalidFileType(cur.file_type)

\* The records of a stream that carry page pn.
PageRecords(recs, pn) ==
    LET OfPage(record) == record._page_number = pn
    IN  SelectSeq(recs, OfPage)

\* The pages of the document the stream of the call got through: all of
\* them, or those before the page it raised on.
PagesDone ==
    IF CurStream.raised THEN 1..(CurStream.pages - 1) ELSE 1..Len(Pages(cur.path))

\* What the table parser of the call's layout gives for the tables of page
\* pn, and what the text fallback gives for its text.
TableParserRecords(pn) ==
    IF cur.file_type = "state"
    THEN TablesRecords(Pages(cur.path)[pn].tables, pn, "state")
    ELSE IF is_multi_round(cur.path)
    THEN TablesRecords(Pages(cur.path)[pn].tables, pn, "multi_round")
    ELSE WithRound(TablesRecords(Pages(cur.path)[pn].tables, pn, "all_india"),
                   round_number_of(cur.path))

FallbackRecords(pn) ==
    WithRound(parse_all_india_text(Pages(cur.path)[pn].lines, pn),
              round_number_of(cur.path))

\* C24 as the specification states it: for every layout, a page with tables
\* gives the records of the layout's table parser, and a page without tables
\* gives the records of the text fallback on its text.
C24_FallbackExactlyWithoutTables ==
    Streaming =>
        \A pn \in PagesDone :
            PageRecords(CurStream.recs, pn) =
                IF Pages(cur.path)[pn].tables /= <<>>
                THEN TableParserRecords(pn)
                ELSE FallbackRecords(pn)

\* C24, amended: in the all-India layouts a page with tables gives the
\* records of the table parser of the format and a page without tables those
\* of the text fallback, and a stream that raises does so in the fallback on
\* a page without tables; the state layout has no fallback: its pages without
\* tables give no record.
C24_FallbackOnlyForAllIndia ==
    Streaming =>
        /\ \A pn \in PagesDone :
              PageRecords(CurStream.recs, pn) =
                  IF Pages(cur.path)[pn].tables /= <<>>
                  THEN TableParserRecords(pn)
                  ELSE IF cur.file_type = "state" THEN <<>>
                  ELSE FallbackRecords(pn)
        /\ CurStream.raised =>
              /\ cur.file_type /= "state"
              /\ Pages(cur.path)[CurStream.pages].tables = <<>>

\* A state call has read a document with a page without tables whose text
\* has a line the fallback matches, and the stream has no record of that
\* page.
C24_Witness ==
    /\ Streaming
    /\ pc = "log"
    /\ cur.file_type = "state"
    /\ \E pn \in PagesDone :
          /\ Pages(cur.path)[pn].tables = <<>>
          /\ parse_all_india_text(Pages(cur.path)[pn].lines, pn) /= <<>>
          /\ PageRecords(CurStream.recs, pn) = <<>>
    /\ total_records > 0

\* The rows of the table of a page, or the lines of its text when it has no
\* table (the modelled pages have one table at most).
RowsOfPage(page) == IF page.tables /= <<>> THEN page.tables[1] ELSE page.lines

\* The positions, in the page a record is tagged with, of the rows or lines
\* that hold the rank of the record: none when the document has no such page
\* or the page no such row.
Positions(record) ==
    IF record._page_number \notin 1..Len(Pages(cur.path)) THEN {}
    ELSE { r \in 1..Len(RowsOfPage(Pages(cur.path)[record._page_number])) :
             RowsOfPage(Pages(cur.path)[record._page_number])[r].rank = record.rank }

\* Record a comes before record b in page order, then row order, then round
\* order (a strict order: it holds of all pairs of a sequence when it holds
\* of the neighbours).
ComesBefore(a, b) ==
    \/ a._page_number < b._page_number
    \/ /\ a._page_number = b._page_number
       /\ \/ Least(Positions(a)) < Least(Positions(b))
          \/ /\ Least(Positions(a)) = Least(Positions(b))
             /\ a.round < b.round

\* C25: the stream of a document yields its records in page order, then row
\* order, then round-window order, each tagged with the 1-based number of
\* the page its row or line is on; and the rows the call has committed are
\* the rows of the first records of the stream, in stream order.
C25_StreamInDocumentOrder ==
    Streaming =>
        LET recs == CurStream.recs
            added == Len(committed.cd) - startLen
        IN  /\ \A i \in 1..Len(recs) : Positions(recs[i]) /= {}
            /\ \A i \in 1..(Len(recs) - 1) : ComesBefore(recs[i], recs[i + 1])
            /\ added \in 0..Len(recs)
            /\ SubSeq(committed.cd, startLen + 1, Len(committed.cd))
                  = RowsOf(SubSeq(recs, 1, added))
            /\ (pc \in {"log", "materialize", "sample"}) => added = Len(recs)

\* All records of a multi-round document of three pages are committed: one
\* row gave a record for each of the three rounds, and a page without tables
\* gave a record between the records of two tables.
C25_Witness ==
    /\ Streaming
    /\ pc = "log"
    /\ is_multi_round(cur.path)
    /\ cur.file_type = "all_india"
    /\ Len(committed.cd) = startLen + Len(CurStream.recs)
    /\ \E i \in 1..(Len(CurStream.recs) - 2) :
          /\ CurStream.recs[i].rank = CurStream.recs[i + 2].rank
          /\ CurStream.recs[i].round = 1
          /\ CurStream.recs[i + 1].round = 2
          /\ CurStream.recs[i + 2].round = 3
    /\ \E i \in 1..Len(CurStream.recs) : CurStream.recs[i]._page_number = 3

\* ------------------------------------------------------------------------
\* The round resolved for the document of the call: the round of its file
\* name, 5 when the text of its first page mentions 'stray'.
ResolvedRound ==
    IF "stray" \in first_page_text(cur.path) THEN 5
    ELSE extract_round_number(cur.path)

\* The record was read from a table of a multi-round document.
FromMultiRoundTable(record) ==
    /\ is_multi_round(cur.path)
    /\ Pages(cur.path)[record._page_number].tables /= <<>>

\* The window of round w of the row a record was read from holds the college
\* and the course of the record.
ReadFromWindow(record, w) ==
    LET row == RowsOfPage(Pages(cur.path)[record._page_number])[Least(Positions(record))]
    IN  /\ row.slices[w].college_name = record.college_name
        /\ row.slices[w].course = record.course

\* C26 as the specification states it: every record of the stream of an
\* all-India document carries the round resolved for the document.
C26_AllRecordsCarryResolvedRound ==
    (Streaming /\ cur.file_type = "all_india") =>
        \A i \in 1..Len(CurStream.recs) : CurStream.recs[i].round = ResolvedRound

\* C26, amended: a record of a single-round table or of the text fallback
\* carries the round resolved for the document; a record of a multi-round
\* table carries the round (1, 2 or 3) of the column window it was read from;
\* a record of the state layout carries round 1.
C26_RoundOfDocumentOrWindow ==
    Streaming =>
        \A i \in 1..Len(CurStream.recs) :
            LET record == CurStream.recs[i]
            IN  IF cur.file_type = "state" THEN record.round = 1
                ELSE IF FromMultiRoundTable(record)
                THEN record.round \in 1..3 /\ ReadFromWindow(record, record.round)
                ELSE record.round = ResolvedRound

\* The records of a multi-round document named for round 3 are committed:
\* records of rounds 1 and 2 from its tables, and a record of the text
\* fallback that carries round 3.
C26_Witness ==
    /\ Streaming
    /\ pc = "log"
    /\ cur.file_type = "all_india"
    /\ is_multi_round(cur.path)
    /\ ResolvedRound = 3
    /\ total_records = Len(CurStream.recs)
    /\ \E i \in 1..Len(CurStream.recs) :
          FromMultiRoundTable(CurStream.recs[i]) /\ CurStream.recs[i].round = 1
    /\ \E i \in 1..Len(CurStream.recs) :
          FromMultiRoundTable(CurStream.recs[i]) /\ CurStream.recs[i].round = 2
    /\ \E i \in 1..Len(CurStream.recs) :
          ~FromMultiRoundTable(CurStream.recs[i]) /\ CurStream.recs[i].round = 3

\* ------------------------------------------------------------------------
\* Notions of the verification properties.

\* The verification pass of a call returns without an error.
SamplePassEnds ==
    /\ pc = "sample"
    /\ pc' = "idle"
    /\ ~SamplingRaises(cur.sample_rate)

\* The stream positions the pass samples.
Sampled == sample_indices(Len(all_records), Stride(cur.sample_rate))

\* The id of the counselling_data row this call created from the record at
\* stream position i: the call inserted every record of the stream, in
\* stream order, after the rows that were there before.
OwnRow(i) == startLen + i

\* C27: every verification_records row of a pass references the
\* counselling_data row that this call created from the sampled record, and
\* no two of them reference the same row.
C27_VerificationPointsAtOwnRow ==
    [][ (SamplePassEnds /\ total_records = Len(all_records))
          => /\ Len(NewVerificationRows) = Len(Sampled)
                  => \A m \in 1..Len(Sampled) :
                        NewVerificationRows[m].counselling_data_id = OwnRow(Sampled[m])
             /\ \A m \in 1..Len(NewVerificationRows) :
                   \A n \in (m + 1)..Len(NewVerificationRows) :
                      NewVerificationRows[m].counselling_data_id
                         /= NewVerificationRows[n].counselling_data_id ]_vars

\* The processed_files row of the call whose verification pass ends.
LoggedRow == committed'.pf[Len(committed'.pf)]

\* C28: the sample_size stored in the processed_files row of a call equals
\* the number of verification_records rows its verification pass wrote.
C28_SampleSizeCountsVerificationRows ==
    [][ (SamplePassEnds /\ Len(committed'.pf) > 0)
          => LoggedRow.sample_size = << Len(NewVerificationRows) >> ]_vars

\* ------------------------------------------------------------------------
\* Failure and repetition.

\* process_pdf_file has returned 0 from its except clause.
ReportedFailure == pc = "idle" /\ result.why = "error"

\* C29: when process_pdf_file reports a failure, counselling_data holds the
\* rows it held when the call began (a consequence of the store being
\* unchanged by the call).
C29_FailureLeavesStoreUnchanged ==
    ReportedFailure => Len(committed.cd) = startLen

\* How many rows of counselling_data, or records of a stream, hold what the
\* row holds.
TimesIn(row, rows) == Cardinality({ i \in 1..Len(rows) : rows[i] = row })

\* A call of process_pdf_file returns the number of records it inserted.
IngestionCompletes == pc /= "idle" /\ pc' = "idle" /\ result'.why = "ok"

\* The stream of the document of the call.
StreamOfCall == record_generator(cur.path, cur.file_type).recs

\* C30: when an ingestion of a document completes, after whatever runs came
\* before it (runs that were killed after a commit among them), counselling_data
\* holds each record of the document's stream as often as the stream does.
C30_EachRecordPersistedOnce ==
    [][ IngestionCompletes
          => \A i \in 1..Len(StreamOfCall) :
                TimesIn(CdRow(StreamOfCall[i]), committed'.cd)
                   = TimesIn(StreamOfCall[i], StreamOfCall) ]_vars

====
